---- MODULE Spec2Model ----
(***************************************************************************)
(* Membership token codec (app/services/membership_codec.py) and recipe    *)
(* engine (app/services/authing_post.py).                                  *)
(*                                                                         *)
(* Python str values are sequences of one-character strings.  Python int   *)
(* values are arbitrary-precision: a non-negative int is a big-endian      *)
(* sequence of decimal digits with no leading zero (0 is <<0>>); a signed  *)
(* int is a record [neg, mag].                                             *)
(***************************************************************************)
EXTENDS Integers, Sequences, FiniteSets, TLC

VARIABLES
    digestOf,   \* the 32 bytes of HMAC-SHA-256(secret, "OFFSET-V1"), per secret
    token,      \* the token string currently held by the caller (None before any)
    origin,     \* how `token` came about: the encode call behind it and edits since
    last,       \* the last call made: operation, arguments and outcome
    memberExpire,   \* the expiry the member holds before a recipe is applied (or None)
    payment_orders, \* the rows of table payment_orders, by out_trade_no
    cache_file      \* the record in the version cache file (None: no such file)

vars == <<digestOf, token, origin, last, memberExpire, payment_orders, cache_file>>

(***************************************************************************)
(* Strings                                                                 *)
(***************************************************************************)
DIGITS == <<"0","1","2","3","4","5","6","7","8","9">>
UPPER == <<"A","B","C","D","E","F","G","H","I","J","K","L","M",
           "N","O","P","Q","R","S","T","U","V","W","X","Y","Z">>
LOWER == <<"a","b","c","d","e","f","g","h","i","j","k","l","m",
           "n","o","p","q","r","s","t","u","v","w","x","y","z">>

BASE62_CHARS == DIGITS \o UPPER \o LOWER
BASE64URL_CHARS == UPPER \o LOWER \o DIGITS \o <<"-","_">>

Range(s) == {s[i] : i \in 1..Len(s)}

\* str.find on a one-character needle: the 0-based index, or -1
Find(chars, c) ==
    IF c \in Range(chars)
    THEN (CHOOSE i \in 1..Len(chars) : chars[i] = c) - 1
    ELSE -1

\* s[a:b] for 0 <= a, b (Python slice, clipped to the string)
Slice(s, a, b) ==
    LET hi == IF b > Len(s) THEN Len(s) ELSE b
    IN  IF a >= hi THEN <<>> ELSE SubSeq(s, a + 1, hi)

\* s[:-n] and s[-n:] for n >= 0; -0 is 0, so s[:-0] is empty and s[-0:] is s
SliceToNeg(s, n) ==
    IF n = 0 THEN <<>> ELSE Slice(s, 0, IF Len(s) - n < 0 THEN 0 ELSE Len(s) - n)
SliceFromNeg(s, n) ==
    IF n = 0 THEN s ELSE Slice(s, IF Len(s) - n < 0 THEN 0 ELSE Len(s) - n, Len(s))

\* two characters outside ASCII for which str.isdigit is true: ARABIC-INDIC DIGIT
\* THREE, which int() reads as 3, and SUPERSCRIPT TWO, which int() refuses
ARABIC_INDIC_THREE == "U+0663"
SUPERSCRIPT_TWO == "U+00B2"

\* code point order of the characters the model uses: the ASCII ones in their
\* order, the two others above them
ASCII_ORDER == <<"!", "-">> \o DIGITS \o <<"=">> \o UPPER \o <<"_">> \o LOWER
Ord(c) ==
    IF c = SUPERSCRIPT_TWO THEN Len(ASCII_ORDER)
    ELSE IF c = ARABIC_INDIC_THREE THEN Len(ASCII_ORDER) + 1
    ELSE Find(ASCII_ORDER, c)

\* a < b for str: lexicographic by code point, a proper prefix is smaller
RECURSIVE StrLtFrom(_, _, _)
StrLtFrom(a, b, i) ==
    IF i > Len(a) THEN i <= Len(b)
    ELSE IF i > Len(b) THEN FALSE
    ELSE IF a[i] = b[i] THEN StrLtFrom(a, b, i + 1)
    ELSE Ord(a[i]) < Ord(b[i])
StrLt(a, b) == StrLtFrom(a, b, 1)
StrLe(a, b) == a = b \/ StrLt(a, b)

\* str.isdigit: non-empty, every character a digit
IsDigitStr(s) ==
    /\ Len(s) > 0
    /\ \A i \in 1..Len(s) : s[i] \in Range(DIGITS) \cup {ARABIC_INDIC_THREE, SUPERSCRIPT_TWO}

\* the value int() gives a decimal digit character, -1 for any other character
DigitValue(c) == IF c = ARABIC_INDIC_THREE THEN 3 ELSE Find(DIGITS, c)

(***************************************************************************)
(* Arbitrary-precision integers                                            *)
(***************************************************************************)
\* TLC evaluates operator arguments lazily and nests Java calls per level of a
\* recursion, so the digit loops test their accumulator (Len(acc) >= 0) to have
\* it evaluated at each step.
Min(S) == CHOOSE x \in S : \A y \in S : x <= y

\* drop leading zeros; 0 is <<0>>
BigNorm(d) ==
    LET nz == {i \in 1..Len(d) : d[i] /= 0}
    IN  IF nz = {} THEN <<0>> ELSE SubSeq(d, Min(nz), Len(d))

RECURSIVE NatDigits(_)
NatDigits(n) == IF n < 10 THEN <<n>> ELSE Append(NatDigits(n \div 10), n % 10)

BigZero == <<0>>
BigIsZero(a) == a = <<0>>

\* left-pad with zeros to n digits
ZeroPad(d, n) == IF Len(d) >= n THEN d ELSE [i \in 1..(n - Len(d)) |-> 0] \o d

BigLt(a, b) ==
    \/ Len(a) < Len(b)
    \/ /\ Len(a) = Len(b)
       /\ \E i \in 1..Len(a) :
            /\ a[i] < b[i]
            /\ \A j \in 1..(i - 1) : a[j] = b[j]
BigLe(a, b) == a = b \/ BigLt(a, b)

\* The digit loops run eight digits at a time (an outer recursion over runs of
\* eight, an inner one over the digits of a run) to stay shallow.
RunEnd(lo, n) == IF lo + 7 > n THEN n ELSE lo + 7
RunStart(hi) == IF hi - 7 < 1 THEN 1 ELSE hi - 7

\* x + sign * y for digit strings of one length, sign 1 or -1 (x >= y for -1)
RECURSIVE AddDigits(_, _, _, _, _, _, _)
AddDigits(x, y, sign, i, lo, carry, acc) ==
    IF Len(acc) >= 0 /\ i >= lo
    THEN AddDigits(x, y, sign, i - 1, lo,
                   IF x[i] + sign * y[i] + carry < 0 THEN -1
                   ELSE (x[i] + sign * y[i] + carry) \div 10,
                   <<(x[i] + sign * y[i] + carry + 10) % 10>> \o acc)
    ELSE [carry |-> carry, acc |-> acc]
RECURSIVE AddRuns(_, _, _, _, _)
AddRuns(x, y, sign, hi, st) ==
    IF st.carry >= -1 /\ hi >= 1
    THEN AddRuns(x, y, sign, RunStart(hi) - 1,
                 AddDigits(x, y, sign, hi, RunStart(hi), st.carry, st.acc))
    ELSE BigNorm((IF st.carry > 0 THEN <<st.carry>> ELSE <<>>) \o st.acc)
BigAdd(a, b) ==
    LET n == IF Len(a) > Len(b) THEN Len(a) ELSE Len(b)
    IN  AddRuns(ZeroPad(a, n), ZeroPad(b, n), 1, n, [carry |-> 0, acc |-> <<>>])
\* a - b for a >= b
BigSub(a, b) == AddRuns(a, ZeroPad(b, Len(a)), -1, Len(a), [carry |-> 0, acc |-> <<>>])

\* divmod(a, d) for a small divisor d
RECURSIVE DivSmallDigits(_, _, _, _, _, _)
DivSmallDigits(a, d, i, hi, rem, q) ==
    IF rem >= 0 /\ Len(q) >= 0 /\ i <= hi
    THEN DivSmallDigits(a, d, i + 1, hi, (rem * 10 + a[i]) % d,
                        Append(q, (rem * 10 + a[i]) \div d))
    ELSE [q |-> q, rem |-> rem]
RECURSIVE DivSmallRuns(_, _, _, _)
DivSmallRuns(a, d, lo, st) ==
    IF st.rem >= 0 /\ lo <= Len(a)
    THEN DivSmallRuns(a, d, RunEnd(lo, Len(a)) + 1,
                      DivSmallDigits(a, d, lo, RunEnd(lo, Len(a)), st.rem, st.q))
    ELSE [quot |-> BigNorm(st.q), rem |-> st.rem]
BigDivModSmall(a, d) == DivSmallRuns(a, d, 1, [q |-> <<>>, rem |-> 0])

\* a * m + c for small m, c
RECURSIVE MulAddDigits(_, _, _, _, _, _)
MulAddDigits(a, m, i, lo, carry, acc) ==
    IF carry >= 0 /\ Len(acc) >= 0 /\ i >= lo
    THEN MulAddDigits(a, m, i - 1, lo, (a[i] * m + carry) \div 10,
                      <<(a[i] * m + carry) % 10>> \o acc)
    ELSE [carry |-> carry, acc |-> acc]
RECURSIVE MulAddRuns(_, _, _, _)
MulAddRuns(a, m, hi, st) ==
    IF st.carry >= 0 /\ hi >= 1
    THEN MulAddRuns(a, m, RunStart(hi) - 1,
                    MulAddDigits(a, m, hi, RunStart(hi), st.carry, st.acc))
    ELSE BigNorm(NatDigits(st.carry) \o st.acc)
BigMulAddSmall(a, m, c) == MulAddRuns(a, m, Len(a), [carry |-> c, acc |-> <<>>])

\* a % m for m > 0 by long division
RECURSIVE ReduceBelow(_, _)
ReduceBelow(r, m) == IF BigLt(r, m) THEN r ELSE ReduceBelow(BigSub(r, m), m)
RECURSIVE ModDigits(_, _, _, _, _)
ModDigits(a, m, i, hi, rem) ==
    IF Len(rem) >= 0 /\ i <= hi
    THEN ModDigits(a, m, i + 1, hi, ReduceBelow(BigNorm(Append(rem, a[i])), m))
    ELSE rem
RECURSIVE ModChunks(_, _, _, _)
ModChunks(a, m, lo, rem) ==
    IF Len(rem) >= 0 /\ lo <= Len(a)
    THEN ModChunks(a, m, RunEnd(lo, Len(a)) + 1,
                   ModDigits(a, m, lo, RunEnd(lo, Len(a)), rem))
    ELSE rem
BigMod(a, m) == IF BigLt(a, m) THEN a ELSE ModChunks(a, m, 1, BigZero)

\* Python int: sign and magnitude
PyInt(neg, mag) == [neg |-> neg /\ ~BigIsZero(mag), mag |-> mag]
Nat2Int(n) == PyInt(FALSE, NatDigits(n))
IntAdd(x, y) ==
    IF x.neg = y.neg THEN PyInt(x.neg, BigAdd(x.mag, y.mag))
    ELSE IF BigLe(y.mag, x.mag) THEN PyInt(x.neg, BigSub(x.mag, y.mag))
    ELSE PyInt(y.neg, BigSub(y.mag, x.mag))
IntNeg(x) == PyInt(~x.neg, x.mag)
IntSub(x, y) == IntAdd(x, IntNeg(y))
IntLt(x, y) ==
    IF x.neg /= y.neg THEN x.neg
    ELSE IF x.neg THEN BigLt(y.mag, x.mag) ELSE BigLt(x.mag, y.mag)
IntLe(x, y) == x = y \/ IntLt(x, y)
\* x % m for m > 0: Python's remainder has the sign of the divisor
FloorRem(neg, r, m) ==
    IF neg /\ ~BigIsZero(r) THEN PyInt(FALSE, BigSub(m, r)) ELSE PyInt(FALSE, r)
IntMod(x, m) == FloorRem(x.neg, BigMod(x.mag, m.mag), m.mag)

\* 10 ** n
IntPow10(n) == PyInt(FALSE, <<1>> \o [i \in 1..n |-> 0])

\* int(s) accepts s when (for a string without sign, blanks or underscores) it is
\* non-empty and every character is a decimal digit
IsDecimalStr(s) == Len(s) > 0 /\ \A i \in 1..Len(s) : DigitValue(s[i]) >= 0
\* int(s) for such a string
IntOfStr(s) == PyInt(FALSE, BigNorm([i \in 1..Len(s) |-> DigitValue(s[i])]))
\* variant: format(n, "d"), no zero padding
FormatUnpadded(n, w) ==
    LET t == [i \in 1..Len(n.mag) |-> DIGITS[n.mag[i] + 1]]
    IN  IF n.neg THEN <<"-">> \o t ELSE t

\* format(n, "0{w}d"): the sign counts towards the width
FormatZeroPadded(n, w) ==
    LET d == ZeroPad(n.mag, IF n.neg THEN w - 1 ELSE w)
        t == [i \in 1..Len(d) |-> DIGITS[d[i] + 1]]
    IN  IF n.neg THEN <<"-">> \o t ELSE t

(***************************************************************************)
(* membership_codec.py                                                     *)
(***************************************************************************)
DEC_LEN == 22
MOD_M == IntPow10(DEC_LEN)

\* a value that is no str: a tuple whose one element is no character
None == <<"None">>
IsStr(v) == v /= None

ValueError(msg) == [ok |-> FALSE, type |-> "ValueError", msg |-> msg]
TypeError(msg) == [ok |-> FALSE, type |-> "TypeError", msg |-> msg]
Ok(v) == [ok |-> TRUE, value |-> v]

\* variant: the length of the value is not looked at
assert_digits_any_length(value, length) ==
    IF ~IsStr(value) \/ ~IsDigitStr(value)
    THEN ValueError("must be exactly N digits")
    ELSE Ok(None)

assert_digits(value, length) ==
    IF ~IsStr(value) \/ Len(value) /= length \/ ~IsDigitStr(value)
    THEN ValueError("must be exactly N digits")
    ELSE Ok(None)

\* digits.append(BASE62_CHARS[remainder]) while current > 0, then reversed
RECURSIVE Base62Digits(_, _)
RECURSIVE Base62Step(_, _)
Base62Digits(current, digits) ==
    IF Len(digits) >= 0 /\ ~BigIsZero(current)
    THEN Base62Step(BigDivModSmall(current, 62), digits)
    ELSE digits
Base62Step(dm, digits) == Base62Digits(dm.quot, <<BASE62_CHARS[dm.rem + 1]>> \o digits)

\* variant: no special case for 0, whose digit loop yields the empty string
big_int_to_base62_loop_only(number) ==
    IF IntLt(number, Nat2Int(0)) THEN ValueError("number must be non-negative")
    ELSE Ok(Base62Digits(number.mag, <<>>))

big_int_to_base62(number) ==
    IF IntLt(number, Nat2Int(0)) THEN ValueError("number must be non-negative")
    ELSE IF number = Nat2Int(0) THEN Ok(<<"0">>)
    ELSE Ok(Base62Digits(number.mag, <<>>))

\* variant: a character outside the alphabet is skipped
RECURSIVE Base62AccumulateSkipping(_, _, _)
Base62AccumulateSkipping(value, i, result) ==
    IF Len(result) >= 0 /\ i <= Len(value)
    THEN IF Find(BASE62_CHARS, value[i]) = -1
         THEN Base62AccumulateSkipping(value, i + 1, result)
         ELSE Base62AccumulateSkipping(value, i + 1,
                  BigMulAddSmall(result, 62, Find(BASE62_CHARS, value[i])))
    ELSE Ok(PyInt(FALSE, result))

RECURSIVE Base62Accumulate(_, _, _)
Base62Accumulate(value, i, result) ==
    IF Len(result) >= 0 /\ i <= Len(value)
    THEN IF Find(BASE62_CHARS, value[i]) = -1 THEN ValueError("invalid base62 digit")
         ELSE Base62Accumulate(value, i + 1,
                               BigMulAddSmall(result, 62, Find(BASE62_CHARS, value[i])))
    ELSE Ok(PyInt(FALSE, result))
base62_to_big_int(value) == Base62Accumulate(value, 1, BigZero)

\* variant: the comparison accepts every tag
timing_safe_eq_any(a, b) == TRUE

timing_safe_eq(a, b) == a = b

\* HMAC-SHA-256 is a library primitive.  Its base64url text (43 characters once
\* the "=" padding is stripped) is modelled by a keyed checksum of the data that
\* is a function of (secret, data) and changes whenever one character of the
\* data, or the secret, changes: the first two characters carry the plain sum of
\* the character codes, the next three the position-weighted sum.
B64_DIGEST_LEN == 43
RECURSIVE CodeSum(_, _, _)
CodeSum(s, i, weighted) ==
    IF i > Len(s) THEN 0
    ELSE (IF weighted THEN i ELSE 1) * (Ord(s[i]) + 1) + CodeSum(s, i + 1, weighted)
HmacB64Char(s1, s2, k) ==
    BASE64URL_CHARS[((CASE k = 1 -> s1
                        [] k = 2 -> s1 \div 64
                        [] k = 3 -> s2
                        [] k = 4 -> s2 \div 64
                        [] k = 5 -> s2 \div 4096
                        [] OTHER -> k * s1 + s2) % 64) + 1]
HmacB64(s1, s2) == [k \in 1..B64_DIGEST_LEN |-> HmacB64Char(s1, s2, k)]

\* mac = base64url(digest) without padding; return mac[:mac_len]
hmac_trunc_base64url(data, secret, mac_len) ==
    Slice(HmacB64(CodeSum(secret, 1, TRUE) + CodeSum(data, 1, FALSE),
                  131 * CodeSum(secret, 1, TRUE) + CodeSum(data, 1, TRUE)),
          0, mac_len)

\* the strings random_base64url(length) can return
random_base64url(length) == [1..length -> Range(BASE64URL_CHARS)]

\* int.from_bytes(digest, "big")
RECURSIVE FromBytes(_, _, _, _)
FromBytes(digest, i, hi, acc) ==
    IF Len(acc) >= 0 /\ i <= hi
    THEN FromBytes(digest, i + 1, hi, BigMulAddSmall(acc, 256, digest[i]))
    ELSE acc
RECURSIVE FromByteRuns(_, _, _)
FromByteRuns(digest, lo, acc) ==
    IF Len(acc) >= 0 /\ lo <= Len(digest)
    THEN FromByteRuns(digest, RunEnd(lo, Len(digest)) + 1,
                      FromBytes(digest, lo, RunEnd(lo, Len(digest)), acc))
    ELSE PyInt(FALSE, acc)
int_from_bytes(digest) == FromByteRuns(digest, 1, BigZero)

\* variant: the remainder is returned as it is, without the + 1
OffsetOfDigestUnshifted(digest) ==
    IntMod(int_from_bytes(digest), IntSub(MOD_M, Nat2Int(1)))

\* big = int.from_bytes(digest, "big"); offset = big % (MOD_M - 1); return offset + 1
OffsetOfDigest(digest) ==
    IntAdd(IntMod(int_from_bytes(digest), IntSub(MOD_M, Nat2Int(1))), Nat2Int(1))

\* the digest of the fixed salt under offset_secret is digestOf[offset_secret]
derive_offset_int(offset_secret) == OffsetOfDigest(digestOf[offset_secret])

\* remainder = value % modulus; return remainder if remainder >= 0 else remainder + modulus
NonNegative(remainder, modulus) ==
    IF IntLe(Nat2Int(0), remainder) THEN remainder ELSE IntAdd(remainder, modulus)
mod(value, modulus) == NonNegative(IntMod(value, modulus), modulus)

\* core = prefix + base62_value; mac = hmac_trunc_base64url(core, ...); return core + mac
\* core and mac of the outcome record what the two locals held at the return
EncodeSigned(core, hmac_secret, mac_len) ==
    Ok(core \o hmac_trunc_base64url(core, hmac_secret, mac_len))
        @@ [core |-> core, mac |-> hmac_trunc_base64url(core, hmac_secret, mac_len)]
EncodeCore(base62_value, hmac_secret, mac_len, prefix) ==
    IF ~base62_value.ok THEN base62_value
    ELSE EncodeSigned(prefix \o base62_value.value, hmac_secret, mac_len)

\* the defaults of prefix_len and mac_len
PREFIX_LEN == 1
MAC_LEN == 6

\* prefix is the string random_base64url(prefix_len) returned
encode_membership(Flag0, Flag1, rechargeDateTime, expireDateTime, offset_secret, hmac_secret, prefix_len, mac_len, prefix) ==
    IF ~assert_digits(Flag0, 1).ok THEN assert_digits(Flag0, 1)
    ELSE IF ~assert_digits(Flag1, 1).ok THEN assert_digits(Flag1, 1)
    ELSE IF ~assert_digits(rechargeDateTime, 10).ok THEN assert_digits(rechargeDateTime, 10)
    ELSE IF ~assert_digits(expireDateTime, 10).ok THEN assert_digits(expireDateTime, 10)
    ELSE IF ~IsDecimalStr(Flag0 \o Flag1 \o rechargeDateTime \o expireDateTime)
    THEN ValueError("invalid literal for int() with base 10")
    ELSE EncodeCore(
             big_int_to_base62(
                 mod(IntAdd(IntOfStr(Flag0 \o Flag1 \o rechargeDateTime \o expireDateTime),
                            derive_offset_int(offset_secret)),
                     MOD_M)),
             hmac_secret, mac_len, prefix)

DecodedMembership(Flag0, Flag1, rechargeDateTime, expireDateTime, isExpired) ==
    [Flag0 |-> Flag0, Flag1 |-> Flag1, rechargeDateTime |-> rechargeDateTime,
     expireDateTime |-> expireDateTime, isExpired |-> isExpired]

MSG_TOO_SHORT == "token too short"
MSG_HMAC == "HMAC verification failed"
MSG_SEGMENT == "invalid base62 segment"
\* the message of both sanity checks (four CJK characters in the source)
MSG_CORRUPT == "xin xi yi chang"

\* re.fullmatch(r"[0-9A-Za-z]+", s)
FullMatchBase62(s) == Len(s) > 0 /\ \A i \in 1..Len(s) : s[i] \in Range(BASE62_CHARS)

\* int(s) for a str of ASCII digits that fits a machine integer
RECURSIVE SmallIntOfStr(_)
SmallIntOfStr(s) ==
    IF Len(s) = 0 THEN 0
    ELSE 10 * SmallIntOfStr(SubSeq(s, 1, Len(s) - 1)) + DigitValue(s[Len(s)])

\* The outcome of decode_membership carries `ran`, the statements of the function
\* that were executed, in order.
RAN_SANITY == <<"type", "length", "hmac", "segment", "base62", "offset", "fields", "sanity">>

\* variant: an expiry equal to the issue hour is rejected too
DecodeCheckedStrict(Flag0, Flag1, rechargeDateTime, expireDateTime, now_str) ==
    IF SmallIntOfStr(Slice(rechargeDateTime, 0, 4)) < 2024
       \/ SmallIntOfStr(Slice(rechargeDateTime, 0, 4)) > 2100
    THEN ValueError(MSG_CORRUPT) @@ [ran |-> RAN_SANITY]
    ELSE IF StrLe(expireDateTime, rechargeDateTime)
    THEN ValueError(MSG_CORRUPT) @@ [ran |-> RAN_SANITY]
    ELSE Ok(DecodedMembership(Flag0, Flag1, rechargeDateTime, expireDateTime,
                              StrLt(expireDateTime, now_str)))
         @@ [ran |-> Append(RAN_SANITY, "expired")]

\* the two sanity checks, then is_expired = expireDateTime < now_str
\* variant: a token counts as expired in the hour of its expiry already
DecodeCheckedExpiredAtExpiry(Flag0, Flag1, rechargeDateTime, expireDateTime, now_str) ==
    IF SmallIntOfStr(Slice(rechargeDateTime, 0, 4)) < 2024
       \/ SmallIntOfStr(Slice(rechargeDateTime, 0, 4)) > 2100
    THEN ValueError(MSG_CORRUPT) @@ [ran |-> RAN_SANITY]
    ELSE IF StrLt(expireDateTime, rechargeDateTime)
    THEN ValueError(MSG_CORRUPT) @@ [ran |-> RAN_SANITY]
    ELSE Ok(DecodedMembership(Flag0, Flag1, rechargeDateTime, expireDateTime,
                              StrLe(expireDateTime, now_str)))
         @@ [ran |-> Append(RAN_SANITY, "expired")]

DecodeChecked(Flag0, Flag1, rechargeDateTime, expireDateTime, now_str) ==
    IF SmallIntOfStr(Slice(rechargeDateTime, 0, 4)) < 2024
       \/ SmallIntOfStr(Slice(rechargeDateTime, 0, 4)) > 2100
    THEN ValueError(MSG_CORRUPT) @@ [ran |-> RAN_SANITY]
    ELSE IF StrLt(expireDateTime, rechargeDateTime)
    THEN ValueError(MSG_CORRUPT) @@ [ran |-> RAN_SANITY]
    ELSE Ok(DecodedMembership(Flag0, Flag1, rechargeDateTime, expireDateTime,
                              StrLt(expireDateTime, now_str)))
         @@ [ran |-> Append(RAN_SANITY, "expired")]

\* raw_str[0:1], raw_str[1:2], raw_str[2:12], raw_str[12:22]
DecodeFields(raw_str, now_str) ==
    DecodeChecked(Slice(raw_str, 0, 1), Slice(raw_str, 1, 2), Slice(raw_str, 2, 12),
                  Slice(raw_str, 12, 22), now_str)

\* the base62 body is checked, converted, unshifted and formatted to DEC_LEN digits
DecodeSegment(base62_part, offset_secret, now_str) ==
    IF Len(base62_part) = 0 \/ ~FullMatchBase62(base62_part)
    THEN ValueError(MSG_SEGMENT) @@ [ran |-> <<"type", "length", "hmac", "segment">>]
    ELSE DecodeFields(
             FormatZeroPadded(
                 mod(IntSub(base62_to_big_int(base62_part).value,
                            derive_offset_int(offset_secret)),
                     MOD_M),
                 DEC_LEN),
             now_str)

\* variant: the base62 body is looked at before the tag
DecodeTaggedBodyFirst(core, mac, offset_secret, hmac_secret, prefix_len, mac_len, now_str) ==
    IF ~FullMatchBase62(Slice(core, prefix_len, Len(core)))
    THEN ValueError(MSG_SEGMENT) @@ [ran |-> <<"type", "length", "segment">>]
    ELSE IF ~timing_safe_eq(mac, hmac_trunc_base64url(core, hmac_secret, mac_len))
    THEN ValueError(MSG_HMAC) @@ [ran |-> <<"type", "length", "segment", "hmac">>]
    ELSE DecodeSegment(Slice(core, prefix_len, Len(core)), offset_secret, now_str)

\* the tag is recomputed over core and compared with the one carried
DecodeTagged(core, mac, offset_secret, hmac_secret, prefix_len, mac_len, now_str) ==
    IF ~timing_safe_eq(mac, hmac_trunc_base64url(core, hmac_secret, mac_len))
    THEN ValueError(MSG_HMAC) @@ [ran |-> <<"type", "length", "hmac">>]
    ELSE DecodeSegment(Slice(core, prefix_len, Len(core)), offset_secret, now_str)

\* now_str is datetime.now(timezone.utc) formatted as YYYYMMDDHH
decode_membership(tok, offset_secret, hmac_secret, prefix_len, mac_len, now_str) ==
    IF ~IsStr(tok) THEN TypeError("invalid token") @@ [ran |-> <<"type">>]
    ELSE IF Len(tok) <= prefix_len + mac_len
    THEN ValueError(MSG_TOO_SHORT) @@ [ran |-> <<"type", "length">>]
    ELSE DecodeTagged(SliceToNeg(tok, mac_len), SliceFromNeg(tok, mac_len),
                      offset_secret, hmac_secret, prefix_len, mac_len, now_str)

(***************************************************************************)
(* authing_post.py: the recipe engine                                      *)
(***************************************************************************)
OverflowError(msg) == [ok |-> FALSE, type |-> "OverflowError", msg |-> msg]

\* Optional[int]: the empty set is None, {n} is the int n
NoInt == {}
SomeInt(n) == {n}
OrZero(d) == IF d = NoInt THEN 0 ELSE CHOOSE n \in d : TRUE

\* truth value of an Optional[str]: None and "" are false
Truthy(v) == IsStr(v) /\ Len(v) > 0

_is_valid_hour(value) == IsStr(value) /\ Len(value) = 10 /\ IsDigitStr(value)

\* the proleptic Gregorian calendar of datetime (year 1..9999)
MINYEAR == 1
MAXYEAR == 9999
IsLeap(y) == y % 4 = 0 /\ (y % 100 /= 0 \/ y % 400 = 0)
DAYS_IN_MONTH == <<31, 28, 31, 30, 31, 30, 31, 31, 30, 31, 30, 31>>
DaysInMonth(y, m) == IF m = 2 /\ IsLeap(y) THEN 29 ELSE DAYS_IN_MONTH[m]
DaysBeforeYear(y) ==
    LET p == y - 1 IN p * 365 + p \div 4 - p \div 100 + p \div 400
RECURSIVE DaysBeforeMonth(_, _)
DaysBeforeMonth(y, m) ==
    IF m = 1 THEN 0 ELSE DaysBeforeMonth(y, m - 1) + DaysInMonth(y, m - 1)
Ymd2Ord(y, m, d) == DaysBeforeYear(y) + DaysBeforeMonth(y, m) + d

\* the date of a day number: the year by the 400/100/4/1-year cycles, then the month
Ord2Ymd(ordinal) ==
    LET n0 == ordinal - 1
        n400 == n0 \div 146097
        r400 == n0 % 146097
        n100 == r400 \div 36524
        r100 == r400 % 36524
        n4 == r100 \div 1461
        r4 == r100 % 1461
        n1 == r4 \div 365
        n == r4 % 365
        year == n400 * 400 + 1 + n100 * 100 + n4 * 4 + n1
    IN  IF n1 = 4 \/ n100 = 4 THEN [y |-> year - 1, m |-> 12, d |-> 31]
        ELSE LET month == CHOOSE m \in 1..12 :
                              /\ DaysBeforeMonth(year, m) <= n
                              /\ n < DaysBeforeMonth(year, m) + DaysInMonth(year, m)
             IN  [y |-> year, m |-> month, d |-> n - DaysBeforeMonth(year, month) + 1]

\* datetime.strptime(base, "%Y%m%d%H") for ten decimal digits
StrpTime(base) ==
    LET y == SmallIntOfStr(Slice(base, 0, 4))
        m == SmallIntOfStr(Slice(base, 4, 6))
        d == SmallIntOfStr(Slice(base, 6, 8))
        h == SmallIntOfStr(Slice(base, 8, 10))
    IN  IF ~IsDecimalStr(base) \/ y < MINYEAR \/ m < 1 \/ m > 12 \/ h > 23
        THEN ValueError("time data does not match format")
        ELSE IF d < 1 \/ d > DaysInMonth(y, m)
        THEN ValueError("day is out of range for month")
        ELSE Ok([y |-> y, m |-> m, d |-> d, h |-> h])

\* strftime("%Y%m%d%H") for a year of four digits
TwoDigits(n) == <<DIGITS[(n \div 10) + 1], DIGITS[(n % 10) + 1]>>
StrfTime(dt) ==
    LET yd == NatDigits(dt.y)
    IN  [i \in 1..Len(yd) |-> DIGITS[yd[i] + 1]]
        \o TwoDigits(dt.m) \o TwoDigits(dt.d) \o TwoDigits(dt.h)

\* base_dt + timedelta(days=days), formatted
AddDaysTo(dt, ordinal) ==
    IF ordinal < 1 \/ ordinal > Ymd2Ord(MAXYEAR, 12, 31)
    THEN OverflowError("date value out of range")
    ELSE Ok(StrfTime(Ord2Ymd(ordinal) @@ [h |-> dt.h]))
AddDaysParsed(dt, days) ==
    IF ~dt.ok THEN dt
    ELSE AddDaysTo(dt.value, Ymd2Ord(dt.value.y, dt.value.m, dt.value.d) + days)
_add_days_from(base, days) ==
    IF ~_is_valid_hour(base) THEN ValueError("base must be YYYYMMDDHH digits")
    ELSE AddDaysParsed(StrpTime(base), days)

MembershipRecipe(type, duration_days, target_expiry_utc) ==
    [type |-> type, duration_days |-> duration_days,
     target_expiry_utc |-> target_expiry_utc]
Stack(days) == MembershipRecipe("STACK", SomeInt(days), None)
SetExpiry(target) == MembershipRecipe("SET_EXPIRY", NoInt, target)

MSG_MONOTONIC == "expiry must increase"

\* variant: the monotonicity check lets a target equal to the current expiry through
compute_new_expiry_equal_allowed(self, current_expire, now_hour) ==
    LET base == IF Truthy(current_expire) /\ StrLt(now_hour, current_expire)
                THEN current_expire ELSE now_hour
    IN  IF self.type = "STACK"
        THEN _add_days_from(base, OrZero(self.duration_days))
        ELSE IF self.type = "SET_EXPIRY"
        THEN IF ~Truthy(self.target_expiry_utc)
             THEN ValueError("target_expiry_utc is required for SET_EXPIRY recipes")
             ELSE IF Truthy(current_expire) /\ StrLt(self.target_expiry_utc, current_expire)
             THEN ValueError(MSG_MONOTONIC)
             ELSE Ok(self.target_expiry_utc)
        ELSE ValueError("Unsupported membership recipe type")

\* variant: a present current expiry is the base even when it has lapsed
compute_new_expiry_lapsed_base(self, current_expire, now_hour) ==
    LET base == IF Truthy(current_expire) THEN current_expire ELSE now_hour
    IN  IF self.type = "STACK"
        THEN _add_days_from(base, OrZero(self.duration_days))
        ELSE IF self.type = "SET_EXPIRY"
        THEN IF ~Truthy(self.target_expiry_utc)
             THEN ValueError("target_expiry_utc is required for SET_EXPIRY recipes")
             ELSE IF Truthy(current_expire) /\ StrLe(self.target_expiry_utc, current_expire)
             THEN ValueError(MSG_MONOTONIC)
             ELSE Ok(self.target_expiry_utc)
        ELSE ValueError("Unsupported membership recipe type")

compute_new_expiry(self, current_expire, now_hour) ==
    LET base == IF Truthy(current_expire) /\ StrLt(now_hour, current_expire)
                THEN current_expire ELSE now_hour
    IN  IF self.type = "STACK"
        THEN LET days == OrZero(self.duration_days)
             IN  _add_days_from(base, days)
        ELSE IF self.type = "SET_EXPIRY"
        THEN IF ~Truthy(self.target_expiry_utc)
             THEN ValueError("target_expiry_utc is required for SET_EXPIRY recipes")
             ELSE IF Truthy(current_expire) /\ StrLe(self.target_expiry_utc, current_expire)
             THEN ValueError(MSG_MONOTONIC)
             ELSE Ok(self.target_expiry_utc)
        ELSE ValueError("Unsupported membership recipe type")

(***************************************************************************)
(* authing_post.py: order metadata, recipe extraction, the identity API    *)
(*                                                                         *)
(* A value of the order metadata is a record tagged with its Python type:  *)
(* a str carries its characters in v, except a str holding a JSON text,    *)
(* which carries the text whole in json; a float carries its value in      *)
(* tenths, or inf / nan in special.                                        *)
(***************************************************************************)
PyNone == [t |-> "NoneType"]
PyStr(chars) == [t |-> "str", v |-> chars]
PyJsonStr(text) == [t |-> "str", json |-> text]
PyNum(n) == [t |-> "int", v |-> n]
PyBool(b) == [t |-> "bool", v |-> b]
PyFloat(tenths) == [t |-> "float", tenths |-> tenths]
PyFloatSpecial(name) == [t |-> "float", special |-> name]
PyDict(items) == [t |-> "dict", v |-> items]
PyList(items) == [t |-> "list", v |-> items]
EmptyDict == PyDict([key \in {} |-> PyNone])

\* bool(x)
PyTruthy(x) ==
    CASE x.t = "NoneType" -> FALSE
      [] x.t = "str" -> IF "json" \in DOMAIN x THEN x.json /= "" ELSE Len(x.v) > 0
      [] x.t = "int" -> x.v /= 0
      [] x.t = "bool" -> x.v
      [] x.t = "float" -> IF "special" \in DOMAIN x THEN TRUE ELSE x.tenths /= 0
      [] x.t = "dict" -> DOMAIN x.v /= {}
      [] x.t = "list" -> Len(x.v) > 0

\* isinstance(x, MutableMapping), and x.get(key)
IsMapping(x) == x.t = "dict"
Get(x, key) == IF key \in DOMAIN x.v THEN x.v[key] ELSE PyNone

\* str.strip() and str.upper() for blanks, line ends and ASCII letters
WHITESPACE == {" ", "\n", "\t", "\r"}
RECURSIVE LStrip(_)
LStrip(chars) ==
    IF Len(chars) > 0 /\ chars[1] \in WHITESPACE THEN LStrip(Tail(chars)) ELSE chars
RECURSIVE RStrip(_)
RStrip(chars) ==
    IF Len(chars) > 0 /\ chars[Len(chars)] \in WHITESPACE
    THEN RStrip(SubSeq(chars, 1, Len(chars) - 1))
    ELSE chars
Strip(chars) == RStrip(LStrip(chars))
Upper(chars) ==
    [i \in 1..Len(chars) |->
        IF chars[i] \in Range(LOWER) THEN UPPER[Find(LOWER, chars[i]) + 1] ELSE chars[i]]

\* int(text) for a str: blanks around it are dropped, one sign is allowed
IntOfSigned(body) ==
    IF Len(body) > 0 /\ body[1] \in {"-", "+"}
    THEN IF IsDecimalStr(Tail(body))
         THEN Ok((IF body[1] = "-" THEN -1 ELSE 1) * SmallIntOfStr(Tail(body)))
         ELSE ValueError("invalid literal for int() with base 10")
    ELSE IF IsDecimalStr(body) THEN Ok(SmallIntOfStr(body))
    ELSE ValueError("invalid literal for int() with base 10")

\* int(x): an int is itself, a bool is 0 or 1, a float is cut towards zero
\* (nan and inf have no int), a str is parsed, anything else is a TypeError
int(x) ==
    CASE x.t = "int" -> Ok(x.v)
      [] x.t = "bool" -> Ok(IF x.v THEN 1 ELSE 0)
      [] x.t = "float" ->
            IF "special" \in DOMAIN x
            THEN IF x.special = "nan"
                 THEN ValueError("cannot convert float NaN to integer")
                 ELSE OverflowError("cannot convert float infinity to integer")
            ELSE Ok(IF x.tenths >= 0 THEN x.tenths \div 10 ELSE -((-x.tenths) \div 10))
      [] x.t = "str" ->
            IF "json" \in DOMAIN x
            THEN ValueError("invalid literal for int() with base 10")
            ELSE IntOfSigned(Strip(x.v))
      [] OTHER -> TypeError("int() argument must be a string or a real number")

FromPayloadStack(days_int) ==
    IF ~days_int.ok
    THEN IF days_int.type \in {"TypeError", "ValueError"} THEN Ok(PyNone) ELSE days_int
    ELSE IF days_int.value < 0 THEN Ok(PyNone)
    ELSE Ok(Stack(days_int.value))

FromPayloadSetExpiry(target) ==
    IF target.t /= "str" THEN Ok(PyNone)
    ELSE IF "json" \in DOMAIN target THEN Ok(PyNone)
    ELSE IF ~_is_valid_hour(Strip(target.v)) THEN Ok(PyNone)
    ELSE Ok(SetExpiry(Strip(target.v)))

FromPayloadTyped(payload, normalized_type) ==
    IF normalized_type = <<"S", "T", "A", "C", "K">>
    THEN FromPayloadStack(int(Get(payload, "durationDays")))
    ELSE IF normalized_type = <<"S", "E", "T", "_", "E", "X", "P", "I", "R", "Y">>
    THEN FromPayloadSetExpiry(Get(payload, "targetExpiryUtc"))
    ELSE Ok(PyNone)

\* MembershipRecipe.from_payload: Ok(PyNone) is the return of None, Ok(recipe)
\* the return of a recipe, anything else an exception that leaves the function
from_payload(payload) ==
    IF ~IsMapping(payload) THEN Ok(PyNone)
    ELSE IF Get(payload, "type").t /= "str" THEN Ok(PyNone)
    ELSE IF "json" \in DOMAIN Get(payload, "type") THEN Ok(PyNone)
    ELSE FromPayloadTyped(payload, Upper(Strip(Get(payload, "type").v)))

\* the JSON texts of the order samples
JSON_STACK_3 == "{\"type\": \"STACK\", \"durationDays\": 3}"
JSON_STACK_LOWER_7 == "{\"type\": \" stack\", \"durationDays\": \"7\"}"
JSON_STACK_INFINITY == "{\"type\": \"STACK\", \"durationDays\": Infinity}"
JSON_STACK_HUGE == "{\"type\": \"STACK\", \"durationDays\": 100000000}"
JSON_SET_2026 == "{\"type\": \"SET_EXPIRY\", \"targetExpiryUtc\": \"2026010100\"}"
JSON_SET_2024 == "{\"type\": \"SET_EXPIRY\", \"targetExpiryUtc\": \"2024030100\"}"
JSON_SET_SUPERSCRIPT == "{\"type\": \"SET_EXPIRY\", \"targetExpiryUtc\": \"202601010\\u00b2\"}"
JSON_SET_2036 == "{\"type\": \"SET_EXPIRY\", \"targetExpiryUtc\": \"2036010100\"}"
JSON_SET_ARABIC_2035 == "{\"type\": \"SET_EXPIRY\", \"targetExpiryUtc\": \"20\\u06635010100\"}"
JSON_STACK_30 == "{\"type\": \"STACK\", \"durationDays\": 30}"
JSON_STACK_90 == "{\"type\": \"STACK\", \"durationDays\": 90}"
JSON_RENEW == "{\"type\": \"RENEW\", \"durationDays\": 3}"
JSON_LIST == "[1]"
JSON_QUOTED_STACK_3 == "\"{\\\"type\\\": \\\"STACK\\\", \\\"durationDays\\\": 3}\""
NOT_JSON == "thirty days"

JSONDecodeError(msg) == [ok |-> FALSE, type |-> "JSONDecodeError", msg |-> msg]

\* json.loads on the texts above
JsonLoads(text) ==
    CASE text = JSON_STACK_3 ->
            Ok(PyDict([type |-> PyStr(<<"S", "T", "A", "C", "K">>), durationDays |-> PyNum(3)]))
      [] text = JSON_STACK_LOWER_7 ->
            Ok(PyDict([type |-> PyStr(<<" ", "s", "t", "a", "c", "k">>),
                       durationDays |-> PyStr(<<"7">>)]))
      [] text = JSON_STACK_INFINITY ->
            Ok(PyDict([type |-> PyStr(<<"S", "T", "A", "C", "K">>),
                       durationDays |-> PyFloatSpecial("inf")]))
      [] text = JSON_STACK_HUGE ->
            Ok(PyDict([type |-> PyStr(<<"S", "T", "A", "C", "K">>),
                       durationDays |-> PyNum(100000000)]))
      [] text = JSON_SET_2026 ->
            Ok(PyDict([type |-> PyStr(<<"S", "E", "T", "_", "E", "X", "P", "I", "R", "Y">>),
                       targetExpiryUtc |-> PyStr(<<"2","0","2","6","0","1","0","1","0","0">>)]))
      [] text = JSON_SET_2024 ->
            Ok(PyDict([type |-> PyStr(<<"S", "E", "T", "_", "E", "X", "P", "I", "R", "Y">>),
                       targetExpiryUtc |-> PyStr(<<"2","0","2","4","0","3","0","1","0","0">>)]))
      [] text = JSON_SET_SUPERSCRIPT ->
            Ok(PyDict([type |-> PyStr(<<"S", "E", "T", "_", "E", "X", "P", "I", "R", "Y">>),
                       targetExpiryUtc |->
                           PyStr(<<"2","0","2","6","0","1","0","1","0", SUPERSCRIPT_TWO>>)]))
      [] text = JSON_SET_2036 ->
            Ok(PyDict([type |-> PyStr(<<"S", "E", "T", "_", "E", "X", "P", "I", "R", "Y">>),
                       targetExpiryUtc |-> PyStr(<<"2","0","3","6","0","1","0","1","0","0">>)]))
      [] text = JSON_SET_ARABIC_2035 ->
            Ok(PyDict([type |-> PyStr(<<"S", "E", "T", "_", "E", "X", "P", "I", "R", "Y">>),
                       targetExpiryUtc |->
                           PyStr(<<"2","0", ARABIC_INDIC_THREE, "5","0","1","0","1","0","0">>)]))
      [] text = JSON_STACK_30 ->
            Ok(PyDict([type |-> PyStr(<<"S", "T", "A", "C", "K">>), durationDays |-> PyNum(30)]))
      [] text = JSON_STACK_90 ->
            Ok(PyDict([type |-> PyStr(<<"S", "T", "A", "C", "K">>), durationDays |-> PyNum(90)]))
      [] text = JSON_RENEW ->
            Ok(PyDict([type |-> PyStr(<<"R", "E", "N", "E", "W">>), durationDays |-> PyNum(3)]))
      [] text = JSON_LIST -> Ok(PyList(<<PyNum(1)>>))
      [] text = JSON_QUOTED_STACK_3 -> Ok(PyJsonStr(JSON_STACK_3))
      [] OTHER -> JSONDecodeError("Expecting value")

\* json.loads(x) for a str x; the strs kept by characters in the samples are
\* no JSON texts
json_loads(x) == IF "json" \in DOMAIN x THEN JsonLoads(x.json) ELSE JSONDecodeError("Expecting value")

\* an order: user_info, description, recharge_days (Optional[int])
Order(user_info, description, recharge_days) ==
    [user_info |-> user_info, description |-> description, recharge_days |-> recharge_days]

\* order.user_info or {}
UserInfoOf(order) == IF PyTruthy(order.user_info) THEN order.user_info ELSE EmptyDict

\* _read_first: the first value under the keys that is true, else None
RECURSIVE ReadFirstFrom(_, _, _)
ReadFirstFrom(data, keys, i) ==
    IF i > Len(keys) THEN PyNone
    ELSE IF PyTruthy(Get(data, keys[i])) THEN Get(data, keys[i])
    ELSE ReadFirstFrom(data, keys, i + 1)
_read_first(data, keys) == ReadFirstFrom(data, keys, 1)

RECIPE_KEYS == <<"membership_recipe", "membershipRecipe", "membership", "plan", "rec">>

\* the candidates in the order they are appended
DescriptionCandidates(order) ==
    IF ~PyTruthy(order.description) THEN <<>>
    ELSE IF json_loads(order.description).ok THEN <<json_loads(order.description).value>>
    ELSE <<>>
RECURSIVE InfoCandidates(_, _)
InfoCandidates(user_info, i) ==
    IF i > Len(RECIPE_KEYS) THEN <<>>
    ELSE (IF PyTruthy(Get(user_info, RECIPE_KEYS[i]))
          THEN <<Get(user_info, RECIPE_KEYS[i])>> ELSE <<>>)
         \o InfoCandidates(user_info, i + 1)
Candidates(order) ==
    DescriptionCandidates(order)
        \o (IF IsMapping(UserInfoOf(order)) THEN InfoCandidates(UserInfoOf(order), 1) ELSE <<>>)

\* the loop over the candidates: a str candidate is parsed, one that is no
\* JSON is skipped; the first recipe is returned, an exception of
\* from_payload leaves the function
RECURSIVE ExtractFrom(_, _)
ExtractStep(candidates, i, recipe) ==
    IF ~recipe.ok THEN recipe
    ELSE IF recipe.value /= PyNone THEN recipe
    ELSE ExtractFrom(candidates, i + 1)
ExtractFrom(candidates, i) ==
    IF i > Len(candidates) THEN Ok(PyNone)
    ELSE IF candidates[i].t = "str"
    THEN IF json_loads(candidates[i]).ok
         THEN ExtractStep(candidates, i, from_payload(json_loads(candidates[i]).value))
         ELSE ExtractFrom(candidates, i + 1)
    ELSE ExtractStep(candidates, i, from_payload(candidates[i]))
_extract_membership_recipe(order) == ExtractFrom(Candidates(order), 1)

\* what the identity API does with a request: it answers with a status, or
\* the request ends in an exception of requests (timeout, no connection)
Response(status_code) == [kind |-> "response", status_code |-> status_code]
NoAnswer == [kind |-> "exception"]

\* the outcome of update_preferred_username: the dict it returns, or the
\* exception of requests.post, and the requests that went out
Returned(value, posted) == [raised |-> FALSE, value |-> value, posted |-> posted]
Post(user_id, preferred_username, tok, userpool_id) ==
    [user |-> user_id, Authorization |-> tok, userpool |-> userpool_id,
     preferredUsername |-> preferred_username]

UpdatePosted(request, reply) ==
    IF reply.kind = "exception"
    THEN [raised |-> TRUE, value |-> PyNone, posted |-> <<request>>]
    ELSE IF reply.status_code = 201
    THEN Returned([ok |-> TRUE, status |-> reply.status_code], <<request>>)
    ELSE Returned([ok |-> FALSE, status |-> reply.status_code, statusText |-> "reason",
                   error |-> "text"], <<request>>)

update_preferred_username(user_id, preferred_username, tok, environ, reply) ==
    IF ~PyTruthy(user_id) \/ ~PyTruthy(preferred_username) \/ ~PyTruthy(tok)
    THEN Returned([ok |-> FALSE, error |-> "Missing Authing parameters"], <<>>)
    ELSE IF ~Truthy(environ.AUTHING_USERPOOL_ID)
    THEN Returned([ok |-> FALSE, error |-> "AUTHING_USERPOOL_ID is not configured"], <<>>)
    ELSE UpdatePosted(Post(user_id, preferred_username, tok, environ.AUTHING_USERPOOL_ID),
                      reply)

\* The outcome of update_membership_for_order: value is what it returns (PyNone
\* or the dict of new_token and response) unless an exception left it; calls
\* are the calls of update_preferred_username it made, posted the requests
\* that went out; reached is the statement it ended at; current_expire,
\* new_expire and new_token are the locals of those names (None if never
\* assigned; new_expire is the value handed to encode_membership).
Ended(reached) ==
    [raised |-> FALSE, value |-> PyNone, calls |-> <<>>, posted |-> <<>>,
     reached |-> reached, current_expire |-> None, new_expire |-> None,
     new_token |-> None]

USER_ID_KEYS == <<"sub", "userId", "id">>
ID_TOKEN_KEYS == <<"id_token", "idToken", "token">>
PREFERRED_USERNAME_KEYS == <<"preferred_username", "preferredUsername">>

Max(a, b) == IF a > b THEN a ELSE b
ExtraDays(order) == Max(OrZero(order.recharge_days), 0)

\* decode_membership of the preferred_username, when there is one
NoToken == Ok([expireDateTime |-> None])
DecodeExisting(preferred_username, environ, now_hour) ==
    IF ~PyTruthy(preferred_username) THEN NoToken
    ELSE IF preferred_username.t /= "str" \/ "json" \in DOMAIN preferred_username
    THEN TypeError("invalid token")
    ELSE decode_membership(preferred_username.v, environ.AUTHING_OFFSET_SECRET,
                           environ.AUTHING_HMAC_SECRET, PREFIX_LEN, MAC_LEN, now_hour)

AfterCall(order, current_expire, new_expire, new_token, called) ==
    [raised |-> called.raised,
     value |-> IF called.raised THEN PyNone
               ELSE PyDict([new_token |-> new_token, response |-> called.value]),
     calls |-> <<[user_id |-> _read_first(UserInfoOf(order), USER_ID_KEYS),
                  preferred_username |-> PyStr(new_token),
                  token |-> _read_first(UserInfoOf(order), ID_TOKEN_KEYS)]>>,
     posted |-> called.posted,
     reached |-> "return",
     current_expire |-> current_expire,
     new_expire |-> new_expire,
     new_token |-> new_token]

\* variant: the call is made whether or not a token was encoded
AfterEncodeCallingAnyway(order, environ, reply, current_expire, new_expire, new_token) ==
    AfterCall(order, current_expire, new_expire,
              IF new_token.ok THEN new_token.value ELSE <<"0">>,
              update_preferred_username(_read_first(UserInfoOf(order), USER_ID_KEYS),
                                        PyStr(IF new_token.ok THEN new_token.value ELSE <<"0">>),
                                        _read_first(UserInfoOf(order), ID_TOKEN_KEYS),
                                        environ, reply))

AfterEncode(order, environ, reply, current_expire, new_expire, new_token) ==
    IF ~new_token.ok
    THEN [Ended("encode_membership") EXCEPT !.current_expire = current_expire,
                                            !.new_expire = new_expire]
    ELSE AfterCall(order, current_expire, new_expire, new_token.value,
                   update_preferred_username(_read_first(UserInfoOf(order), USER_ID_KEYS),
                                             PyStr(new_token.value),
                                             _read_first(UserInfoOf(order), ID_TOKEN_KEYS),
                                             environ, reply))

AfterExtraDays(order, environ, now_hour, prefix, reply, current_expire, new_expire) ==
    IF ~new_expire.ok
    THEN [Ended("_add_days_from") EXCEPT !.current_expire = current_expire]
    ELSE AfterEncode(order, environ, reply, current_expire, new_expire.value,
                     encode_membership(<<"0">>, <<"0">>, now_hour, new_expire.value,
                                       environ.AUTHING_OFFSET_SECRET,
                                       environ.AUTHING_HMAC_SECRET,
                                       PREFIX_LEN, MAC_LEN, prefix))

\* variant: recharge_days is added as it stands, negative or not
AfterComputeSignedDays(order, environ, now_hour, prefix, reply, current_expire, new_expire) ==
    IF ~new_expire.ok
    THEN [Ended("compute_new_expiry") EXCEPT !.current_expire = current_expire]
    ELSE AfterExtraDays(order, environ, now_hour, prefix, reply, current_expire,
                        IF OrZero(order.recharge_days) /= 0
                        THEN _add_days_from(new_expire.value, OrZero(order.recharge_days))
                        ELSE new_expire)

AfterCompute(order, environ, now_hour, prefix, reply, current_expire, new_expire) ==
    IF ~new_expire.ok
    THEN [Ended("compute_new_expiry") EXCEPT !.current_expire = current_expire]
    ELSE AfterExtraDays(order, environ, now_hour, prefix, reply, current_expire,
                        IF ExtraDays(order) /= 0
                        THEN _add_days_from(new_expire.value, ExtraDays(order))
                        ELSE new_expire)

\* variant: a token that does not decode ends the update
AfterDecodeAborting(order, environ, now_hour, prefix, reply, recipe, decoded) ==
    IF ~decoded.ok THEN Ended("decode_membership")
    ELSE AfterCompute(order, environ, now_hour, prefix, reply, decoded.value.expireDateTime,
                      compute_new_expiry(recipe, decoded.value.expireDateTime, now_hour))

AfterDecode(order, environ, now_hour, prefix, reply, recipe, decoded) ==
    IF ~decoded.ok
    THEN AfterCompute(order, environ, now_hour, prefix, reply, None,
                      compute_new_expiry(recipe, None, now_hour))
    ELSE AfterCompute(order, environ, now_hour, prefix, reply, decoded.value.expireDateTime,
                      compute_new_expiry(recipe, decoded.value.expireDateTime, now_hour))

AfterExtract(order, environ, now_hour, prefix, reply, recipe) ==
    IF ~recipe.ok
    THEN [Ended("_extract_membership_recipe") EXCEPT !.raised = TRUE]
    ELSE IF recipe.value = PyNone THEN Ended("recipe")
    ELSE AfterDecode(order, environ, now_hour, prefix, reply, recipe.value,
                     DecodeExisting(_read_first(UserInfoOf(order), PREFERRED_USERNAME_KEYS),
                                    environ, now_hour))

\* variant: a secret that is not configured is replaced by the other one
update_membership_for_order_no_secret_check(order, environ, now_hour, prefix, reply) ==
    IF ~IsMapping(UserInfoOf(order)) THEN Ended("user_info")
    ELSE IF \/ ~PyTruthy(_read_first(UserInfoOf(order), USER_ID_KEYS))
            \/ ~PyTruthy(_read_first(UserInfoOf(order), ID_TOKEN_KEYS))
    THEN Ended("credentials")
    ELSE AfterExtract(order,
                      [environ EXCEPT
                         !.AUTHING_OFFSET_SECRET =
                             IF Truthy(@) THEN @ ELSE environ.AUTHING_HMAC_SECRET,
                         !.AUTHING_HMAC_SECRET =
                             IF Truthy(@) THEN @ ELSE environ.AUTHING_OFFSET_SECRET],
                      now_hour, prefix, reply, _extract_membership_recipe(order))

update_membership_for_order(order, environ, now_hour, prefix, reply) ==
    IF ~IsMapping(UserInfoOf(order)) THEN Ended("user_info")
    ELSE IF \/ ~PyTruthy(_read_first(UserInfoOf(order), USER_ID_KEYS))
            \/ ~PyTruthy(_read_first(UserInfoOf(order), ID_TOKEN_KEYS))
    THEN Ended("credentials")
    ELSE IF ~Truthy(environ.AUTHING_OFFSET_SECRET) \/ ~Truthy(environ.AUTHING_HMAC_SECRET)
    THEN Ended("secrets")
    ELSE AfterExtract(order, environ, now_hour, prefix, reply,
                      _extract_membership_recipe(order))

(***************************************************************************)
(* Inputs                                                                  *)
(***************************************************************************)
SecretA == <<"k", "A">>
SecretB == <<"k", "B">>
Secrets == {SecretA, SecretB}

DIGEST_SIZE == 32
DigestZero == [i \in 1..DIGEST_SIZE |-> 0]
DigestOnes == [i \in 1..DIGEST_SIZE |-> 255]
\* 10^22 - 2, 10^22 - 1 and 10^22 as digests: offsets 10^22 - 1, 1 and 2
DigestModM2 == [i \in 1..22 |-> 0] \o <<2,30,25,224,201,186,178,63,255,254>>
DigestModM1 == [i \in 1..22 |-> 0] \o <<2,30,25,224,201,186,178,63,255,255>>
DigestModM0 == [i \in 1..22 |-> 0] \o <<2,30,25,224,201,186,178,64,0,0>>
\* 2 * (10^22 - 1) - 1: one below the second multiple of the modulus
DigestTwice == [i \in 1..22 |-> 0] \o <<4,60,51,193,147,117,100,127,255,253>>
DigestAny == <<247,53,131,67,136,250,66,183,172,185,189,153,79,113,85,255,
               165,98,1,226,221,74,194,70,94,248,138,6,208,47,255,34>>
DigestSamples == {DigestZero, DigestOnes, DigestModM2, DigestModM1, DigestModM0,
                  DigestTwice, DigestAny}

Hour(y, m, d, h) == StrfTime([y |-> y, m |-> m, d |-> d, h |-> h])
HourZero == [i \in 1..10 |-> "0"]
HourNines == [i \in 1..10 |-> "9"]

(***************************************************************************)
(* Token codec: encode, the token on its way, decode                       *)
(***************************************************************************)
\* (Flag0, Flag1, rechargeDateTime, expireDateTime) handed to encode_membership
FieldSamples ==
    { <<"0", "0", Hour(2024, 1, 1, 0), Hour(2024, 2, 1, 0)>>,
      <<"0", "7", Hour(2024, 1, 1, 0), Hour(2024, 1, 1, 0)>>,
      <<"9", "9", Hour(2100, 12, 31, 23), HourNines>>,
      <<"1", "0", Hour(2023, 12, 31, 23), Hour(2024, 1, 1, 0)>>,
      <<"0", "0", Hour(2101, 1, 1, 0), Hour(2101, 1, 1, 0)>>,
      <<"0", "0", Hour(2025, 6, 1, 12), Hour(2025, 6, 1, 11)>>,
      <<"0", "0", HourZero, HourZero>>,
      <<"9", "0", Hour(2024, 1, 1, 0), Hour(2023, 12, 31, 23)>> }

\* field values the caller may hand in that are not the digits 0-9 at the
\* required width: a digit of another script, a superscript digit, a wrong
\* length, a character that is no digit, a value that is no str
OddFieldSamples ==
    { <<<<"0">>, <<ARABIC_INDIC_THREE>>, Hour(2024, 1, 1, 0), Hour(2024, 2, 1, 0)>>,
      <<<<SUPERSCRIPT_TWO>>, <<"0">>, Hour(2024, 1, 1, 0), Hour(2024, 2, 1, 0)>>,
      <<<<>>, <<"0">>, Hour(2024, 1, 1, 0), Hour(2024, 2, 1, 0)>>,
      <<<<"1", "2">>, <<"0">>, Hour(2024, 1, 1, 0), Hour(2024, 2, 1, 0)>>,
      <<<<"0">>, <<"a">>, Hour(2024, 1, 1, 0), Hour(2024, 2, 1, 0)>>,
      <<<<"0">>, None, Hour(2024, 1, 1, 0), Hour(2024, 2, 1, 0)>>,
      <<<<"0">>, <<"0">>, SubSeq(Hour(2024, 1, 1, 0), 1, 9), Hour(2024, 2, 1, 0)>>,
      <<<<"0">>, <<"0">>, Hour(2024, 1, 1, 0) \o <<"0">>, Hour(2024, 2, 1, 0)>>,
      <<<<"0">>, <<"0">>, Hour(2024, 1, 1, 0), <<"2","0","2","4","-","0","2","-","0","1">>>>,
      <<<<"0">>, <<"0">>, Hour(2024, 1, 1, 0), None>> }

\* (Flag0, Flag1, rechargeDateTime, expireDateTime) as str values
FieldInputs ==
    {<<<<f[1]>>, <<f[2]>>, f[3], f[4]>> : f \in FieldSamples} \cup OddFieldSamples

\* the clock readings at decode time
NowSamples == {Hour(2024, 2, 1, 0), Hour(2025, 6, 1, 12)}

\* the prefixes drawn by random_base64url
PrefixChars == {"x", "-"}
PrefixDraws(prefix_len) ==
    {p \in random_base64url(prefix_len) : \A i \in 1..prefix_len : p[i] \in PrefixChars}

\* what an edit of one character of a token puts in its place
TamperChars == {"A", "!"}

\* bodies that were never encoded, given a tag by a holder of the MAC secret
ForgedCores ==
    { <<"x", "-">>, <<"x", "a", "!", "b">>, <<"x", "0">>, <<"-", "_", "Z">>,
      <<"x">> \o [i \in 1..13 |-> "z"] }
\* strings that never carried a tag
ForeignTokens ==
    { <<>>, <<"a">>, [i \in 1..6 |-> "A"], [i \in 1..7 |-> "A"], [i \in 1..8 |-> "A"],
      [i \in 1..9 |-> "!"], <<"x", "0", "A", "A", "A", "A", "A", "A">> }

NoCall == [op |-> "none"]
NoOrigin == [kind |-> "none"]
NoOrders == [out_trade_no \in {} |-> None]

InitCodec ==
    /\ digestOf \in { (SecretA :> DigestAny) @@ (SecretB :> DigestModM2),
                      (SecretA :> DigestModM1) @@ (SecretB :> DigestOnes) }
    /\ token = None
    /\ origin = NoOrigin
    /\ last = NoCall
    /\ memberExpire = None
    /\ payment_orders = NoOrders
    /\ cache_file = None

Encode ==
    /\ token = None
    /\ last = NoCall
    /\ \E f \in FieldInputs, os \in Secrets, hs \in Secrets,
          prefix \in PrefixDraws(PREFIX_LEN) :
         last' = [op |-> "encode", Flag0 |-> f[1], Flag1 |-> f[2],
                  rechargeDateTime |-> f[3], expireDateTime |-> f[4],
                  offset_secret |-> os, hmac_secret |-> hs, prefix |-> prefix,
                  result |-> encode_membership(f[1], f[2], f[3], f[4], os, hs,
                                               PREFIX_LEN, MAC_LEN, prefix)]
    /\ token' = IF last'.result.ok THEN last'.result.value ELSE None
    /\ origin' = IF last'.result.ok
                 THEN [kind |-> "encoded", Flag0 |-> last'.Flag0, Flag1 |-> last'.Flag1,
                       rechargeDateTime |-> last'.rechargeDateTime,
                       expireDateTime |-> last'.expireDateTime,
                       offset_secret |-> last'.offset_secret,
                       hmac_secret |-> last'.hmac_secret]
                 ELSE NoOrigin
    /\ UNCHANGED <<digestOf, memberExpire, payment_orders, cache_file>>

\* a second call of encode_membership with the arguments of the first; the
\* random source draws the prefix anew
EncodeAgain ==
    /\ last.op = "encode"
    /\ last.result.ok
    /\ \E prefix \in PrefixDraws(PREFIX_LEN) :
         last' = [op |-> "encode_again", first |-> last.result.value, prefix |-> prefix,
                  result |-> encode_membership(last.Flag0, last.Flag1,
                                               last.rechargeDateTime, last.expireDateTime,
                                               last.offset_secret, last.hmac_secret,
                                               PREFIX_LEN, MAC_LEN, prefix)]
    /\ token' = last'.result.value
    /\ UNCHANGED <<digestOf, origin, memberExpire, payment_orders, cache_file>>

\* the caller presents a string that encode_membership did not return
Present ==
    /\ token = None
    /\ last = NoCall
    /\ \/ \E t \in ForeignTokens :
            /\ token' = t
            /\ origin' = [kind |-> "foreign"]
       \/ \E core \in ForgedCores, hs \in Secrets :
            /\ token' = core \o hmac_trunc_base64url(core, hs, MAC_LEN)
            /\ origin' = [kind |-> "forged", hmac_secret |-> hs]
    /\ last' = [op |-> "present"]
    /\ UNCHANGED <<digestOf, memberExpire, payment_orders, cache_file>>

\* one character of an encoded token is changed on the way
Tamper ==
    /\ origin.kind = "encoded"
    /\ last.op = "encode"
    /\ \E i \in 1..Len(token), c \in TamperChars :
         /\ c /= token[i]
         /\ token' = [token EXCEPT ![i] = c]
         /\ origin' = [origin EXCEPT !.kind = "tampered"]
    /\ last' = [op |-> "tamper"]
    /\ UNCHANGED <<digestOf, memberExpire, payment_orders, cache_file>>

\* base62_to_big_int applied to the characters of the held string between the
\* prefix and the tag
Base62Decode ==
    /\ token /= None
    /\ last.op \in {"encode", "present", "tamper"}
    /\ last' = [op |-> "base62_to_big_int",
                value |-> Slice(SliceToNeg(token, MAC_LEN), PREFIX_LEN, Len(token)),
                result |-> base62_to_big_int(
                               Slice(SliceToNeg(token, MAC_LEN), PREFIX_LEN, Len(token)))]
    /\ UNCHANGED <<digestOf, token, origin, memberExpire, payment_orders, cache_file>>

Decode ==
    /\ token /= None
    /\ last.op \in {"encode", "present", "tamper"}
    /\ \E os \in Secrets, hs \in Secrets, now \in NowSamples :
         last' = [op |-> "decode", token |-> token, offset_secret |-> os,
                  hmac_secret |-> hs, now |-> now,
                  result |-> decode_membership(token, os, hs, PREFIX_LEN, MAC_LEN, now)]
    /\ UNCHANGED <<digestOf, token, origin, memberExpire, payment_orders, cache_file>>

\* the token that was decoded is decoded once more, in another hour
DecodeAgain ==
    /\ last.op = "decode"
    /\ last.result.ok
    /\ \E now \in NowSamples \ {last.now} :
         last' = [op |-> "decode_again", token |-> token,
                  offset_secret |-> last.offset_secret, hmac_secret |-> last.hmac_secret,
                  earlier_now |-> last.now, earlier |-> last.result.value, now |-> now,
                  result |-> decode_membership(token, last.offset_secret, last.hmac_secret,
                                               PREFIX_LEN, MAC_LEN, now)]
    /\ UNCHANGED <<digestOf, token, origin, memberExpire, payment_orders, cache_file>>

NextCodec ==
    Encode \/ EncodeAgain \/ Present \/ Tamper \/ Decode \/ DecodeAgain \/ Base62Decode

SpecCodec == InitCodec /\ [][NextCodec]_vars

(***************************************************************************)
(* Wire format: encode and decode with the prefix and tag lengths the      *)
(* caller passes                                                           *)
(***************************************************************************)
\* prefix_len and mac_len arguments: none, the defaults, the whole base64url
\* text of the digest, and one more than that
PrefixLens == {0, PREFIX_LEN, PREFIX_LEN + 1}
MacLens == {0, 1, MAC_LEN, B64_DIGEST_LEN, B64_DIGEST_LEN + 1}

EncodeWire ==
    /\ token = None
    /\ last = NoCall
    /\ \E f \in FieldSamples, os \in Secrets, hs \in Secrets,
          prefix_len \in PrefixLens, mac_len \in MacLens :
         \E prefix \in PrefixDraws(prefix_len) :
           last' = [op |-> "encode", prefix_len |-> prefix_len, mac_len |-> mac_len,
                    offset_secret |-> os, hmac_secret |-> hs, prefix |-> prefix,
                    result |-> encode_membership(<<f[1]>>, <<f[2]>>, f[3], f[4], os, hs,
                                                 prefix_len, mac_len, prefix)]
    /\ token' = last'.result.value
    /\ origin' = [kind |-> "encoded", prefix_len |-> last'.prefix_len,
                  mac_len |-> last'.mac_len, core |-> last'.result.core,
                  mac |-> last'.result.mac]
    /\ UNCHANGED <<digestOf, memberExpire, payment_orders, cache_file>>

\* decode_membership with the secrets and lengths the token was made with;
\* core and mac are the two slices it takes once the length check has passed
DecodeWire ==
    /\ last.op = "encode"
    /\ \E now \in NowSamples :
         last' = [op |-> "decode", now |-> now,
                  core |-> SliceToNeg(token, last.mac_len),
                  mac |-> SliceFromNeg(token, last.mac_len),
                  result |-> decode_membership(token, last.offset_secret, last.hmac_secret,
                                               last.prefix_len, last.mac_len, now)]
    /\ UNCHANGED <<digestOf, token, origin, memberExpire, payment_orders, cache_file>>

NextWire == EncodeWire \/ DecodeWire

SpecWire == InitCodec /\ [][NextWire]_vars

(***************************************************************************)
(* Recipe engine: compute_new_expiry over recipes, expiries and clocks     *)
(***************************************************************************)
\* a ten-digit string that is no calendar hour (30 February)
HourFeb30 == <<"2","0","2","6","0","2","3","0","0","0">>

\* the expiry a member holds: none, the empty string, or ten digits
CurrentSamples ==
    { None, <<>>, Hour(2024, 1, 1, 0), Hour(2024, 2, 29, 23), Hour(2025, 2, 1, 0),
      Hour(2025, 6, 1, 12), Hour(2025, 7, 1, 0), Hour(9999, 12, 31, 23),
      HourFeb30, HourNines }

\* the clock readings of _now_utc_hour
NowHourSamples ==
    { Hour(2023, 12, 31, 0), Hour(2024, 2, 29, 23), Hour(2025, 6, 1, 12),
      Hour(2027, 12, 31, 23) }

RecipeSamples ==
    { Stack(0), Stack(1), Stack(30), Stack(365), Stack(366), Stack(1461),
      Stack(3000000), Stack(-1), MembershipRecipe("STACK", NoInt, None),
      SetExpiry(Hour(2020, 1, 1, 0)), SetExpiry(Hour(2025, 1, 1, 0)),
      SetExpiry(Hour(2025, 2, 1, 0)), SetExpiry(Hour(2025, 6, 1, 12)),
      SetExpiry(Hour(2026, 1, 1, 0)), SetExpiry(HourNines),
      SetExpiry(None), SetExpiry(<<>>),
      MembershipRecipe("REFUND", NoInt, None) }

InitRecipe ==
    /\ digestOf = (SecretA :> DigestAny) @@ (SecretB :> DigestModM2)
    /\ token = None
    /\ origin = NoOrigin
    /\ last = NoCall
    /\ memberExpire \in CurrentSamples
    /\ payment_orders = NoOrders
    /\ cache_file = None

ComputeNewExpiry ==
    /\ \E recipe \in RecipeSamples, now_hour \in NowHourSamples :
         last' = [op |-> "compute_new_expiry", self |-> recipe,
                  current_expire |-> memberExpire, now_hour |-> now_hour,
                  result |-> compute_new_expiry(recipe, memberExpire, now_hour)]
    /\ UNCHANGED <<digestOf, token, origin, memberExpire, payment_orders, cache_file>>

NextRecipe == ComputeNewExpiry

SpecRecipe == InitRecipe /\ [][NextRecipe]_vars

(***************************************************************************)
(* Codec primitives: derive_offset_int and the base62 conversions          *)
(***************************************************************************)
MaxSmallN == 130

\* 62 ** k
RECURSIVE Pow62(_)
Pow62(k) == IF k = 0 THEN <<1>> ELSE BigMulAddSmall(Pow62(k - 1), 62, 0)

\* the integers handed to big_int_to_base62
Base62Samples ==
    {Nat2Int(n) : n \in 0..MaxSmallN}
    \cup {PyInt(FALSE, Pow62(k)) : k \in {2, 3, 7, 12, 13}}
    \cup {IntSub(PyInt(FALSE, Pow62(k)), Nat2Int(1)) : k \in {2, 3, 7, 12, 13}}
    \cup {IntAdd(IntPow10(k), Nat2Int(d)) : k \in {21, 22, 23, 30}, d \in {0, 1, 61}}
    \cup {IntSub(IntPow10(k), Nat2Int(1)) : k \in {22, 30}}
    \cup {IntNeg(Nat2Int(1)), IntNeg(IntPow10(22))}

InitPrim ==
    /\ digestOf \in [Secrets -> DigestSamples]
    /\ token = None
    /\ origin = NoOrigin
    /\ last = NoCall
    /\ memberExpire = None
    /\ payment_orders = NoOrders
    /\ cache_file = None

\* `earlier` keeps, per secret, the offsets returned by the calls so far
NoOffsets == [s \in Secrets |-> {}]

DeriveOffset ==
    /\ last.op /= "base62"
    /\ \E offset_secret \in Secrets :
         last' = [op |-> "derive_offset_int", offset_secret |-> offset_secret,
                  result |-> derive_offset_int(offset_secret),
                  earlier |-> IF last.op = "derive_offset_int"
                              THEN [last.earlier EXCEPT ![last.offset_secret] =
                                       @ \cup {last.result}]
                              ELSE NoOffsets]
    /\ UNCHANGED <<digestOf, token, origin, memberExpire, payment_orders, cache_file>>

\* big_int_to_base62(number), and base62_to_big_int of what it returned
Base62RoundTrip ==
    /\ last.op = "none"
    /\ \E number \in Base62Samples :
         last' = [op |-> "base62", number |-> number,
                  encoded |-> big_int_to_base62(number),
                  decoded |-> IF big_int_to_base62(number).ok
                              THEN base62_to_big_int(big_int_to_base62(number).value)
                              ELSE big_int_to_base62(number)]
    /\ UNCHANGED <<digestOf, token, origin, memberExpire, payment_orders, cache_file>>

NextPrim == DeriveOffset \/ Base62RoundTrip

SpecPrim == InitPrim /\ [][NextPrim]_vars

(***************************************************************************)
(* Orders: update_membership_for_order, its caller, and the functions it   *)
(* is made of                                                              *)
(***************************************************************************)
\* the environment: both secrets and the user-pool id, or one of them absent
EnvAll ==
    [AUTHING_OFFSET_SECRET |-> SecretA, AUTHING_HMAC_SECRET |-> SecretB,
     AUTHING_USERPOOL_ID |-> <<"p", "1">>]
EnvSamples ==
    { EnvAll,
      [EnvAll EXCEPT !.AUTHING_OFFSET_SECRET = None],
      [EnvAll EXCEPT !.AUTHING_HMAC_SECRET = <<>>],
      [EnvAll EXCEPT !.AUTHING_USERPOOL_ID = None] }

\* the answers of the identity API
ReplySamples == {Response(201), Response(200), Response(500), NoAnswer}

\* the prefix random_base64url draws during an update
OrderPrefixSamples == {<<"x">>}

\* the clock readings of _now_utc_hour
OrderNowSamples == {Hour(2025, 6, 1, 12), Hour(2025, 8, 1, 0)}

\* tokens a member may hold: one made with the secrets of the environment,
\* one whose issue year is implausible, one made with other secrets, one with
\* its last character changed, one whose body is no base62 with a good tag
HeldValid ==
    encode_membership(<<"0">>, <<"0">>, Hour(2024, 6, 1, 0), Hour(2025, 7, 1, 0),
                      SecretA, SecretB, PREFIX_LEN, MAC_LEN, <<"x">>).value
HeldCorrupt ==
    encode_membership(<<"0">>, <<"0">>, Hour(2023, 12, 31, 23), Hour(2025, 7, 1, 0),
                      SecretA, SecretB, PREFIX_LEN, MAC_LEN, <<"x">>).value
HeldForeign ==
    encode_membership(<<"0">>, <<"0">>, Hour(2024, 6, 1, 0), Hour(2025, 7, 1, 0),
                      SecretB, SecretA, PREFIX_LEN, MAC_LEN, <<"x">>).value
HeldTampered == [HeldValid EXCEPT ![Len(HeldValid)] = "!"]
HeldBadSegment ==
    <<"x", "a", "!", "b">> \o hmac_trunc_base64url(<<"x", "a", "!", "b">>, SecretB, MAC_LEN)

UserId == PyStr(<<"u", "1">>)
IdToken == PyStr(<<"j", "w", "t">>)
User == [sub |-> UserId, id_token |-> IdToken]
Holding(held) == PyDict(User @@ [preferred_username |-> held])
Stack3 == PyJsonStr(JSON_STACK_3)

OrderSamples ==
    { Order(PyDict(User), Stack3, SomeInt(0)),
      Order(Holding(PyStr(HeldValid)), Stack3, SomeInt(0)),
      Order(Holding(PyStr(HeldTampered)), Stack3, SomeInt(0)),
      Order(Holding(PyStr(<<"a">>)), Stack3, SomeInt(0)),
      Order(Holding(PyNum(5)), Stack3, SomeInt(0)),
      Order(Holding(PyStr(HeldForeign)), Stack3, SomeInt(0)),
      Order(Holding(PyStr(HeldCorrupt)), Stack3, SomeInt(0)),
      Order(Holding(PyStr(HeldBadSegment)), Stack3, SomeInt(0)),
      Order(PyDict(User @@ [preferred_username |-> PyStr(<<>>),
                            preferredUsername |-> PyStr(HeldValid)]), Stack3, SomeInt(0)),
      Order(PyDict([id_token |-> IdToken]), Stack3, SomeInt(0)),
      Order(PyDict([sub |-> PyStr(<<>>), id |-> UserId, id_token |-> IdToken]),
            Stack3, SomeInt(0)),
      Order(PyDict([sub |-> UserId]), Stack3, SomeInt(0)),
      Order(PyDict([sub |-> UserId, id_token |-> PyNone]), Stack3, SomeInt(0)),
      Order(PyNone, Stack3, SomeInt(0)),
      Order(PyList(<<UserId, IdToken>>), Stack3, SomeInt(0)),
      Order(PyDict(User), PyNone, SomeInt(0)),
      Order(PyDict(User), PyJsonStr(""), SomeInt(30)),
      Order(PyDict(User @@ [plan |-> PyJsonStr(JSON_STACK_LOWER_7)]),
            PyJsonStr(NOT_JSON), SomeInt(0)),
      Order(PyDict(User), PyJsonStr(JSON_LIST), SomeInt(0)),
      Order(PyDict(User), PyJsonStr(JSON_RENEW), SomeInt(30)),
      Order(PyDict(User), PyJsonStr(JSON_STACK_INFINITY), SomeInt(0)),
      Order(PyDict(User @@ [membership_recipe |->
                               PyDict([type |-> PyStr(<<"S", "T", "A", "C", "K">>),
                                       durationDays |-> PyNum(30)])]),
            PyNone, SomeInt(0)),
      Order(Holding(PyStr(HeldValid)), PyJsonStr(JSON_SET_2024), SomeInt(0)),
      Order(Holding(PyStr(HeldTampered)), PyJsonStr(JSON_SET_2024), SomeInt(0)),
      Order(Holding(PyStr(HeldValid)), PyJsonStr(JSON_SET_2026), SomeInt(0)),
      Order(PyDict(User), PyJsonStr(JSON_SET_2026), SomeInt(0)),
      Order(PyDict(User), PyJsonStr(JSON_STACK_HUGE), SomeInt(0)),
      Order(PyDict(User), Stack3, SomeInt(30)),
      Order(PyDict(User), Stack3, SomeInt(10000000)),
      Order(PyDict(User), Stack3, NoInt),
      Order(PyDict(User), Stack3, SomeInt(-5)),
      Order(Holding(PyStr(HeldValid)), Stack3, SomeInt(30)),
      Order(Holding(PyStr(HeldValid)), PyJsonStr(JSON_SET_2026), SomeInt(30)),
      Order(Holding(PyStr(HeldValid)), PyJsonStr(JSON_SET_2024), SomeInt(3000)),
      Order(PyDict(User), PyJsonStr(JSON_SET_2024), SomeInt(0)),
      Order(PyDict(User), PyJsonStr(JSON_SET_SUPERSCRIPT), SomeInt(0)),
      Order(PyDict(User), PyJsonStr(JSON_SET_SUPERSCRIPT), SomeInt(30)),
      Order(PyDict(User @@ [rec |-> Stack3]), PyJsonStr(JSON_RENEW), SomeInt(0)),
      Order(PyDict(User), PyJsonStr(JSON_QUOTED_STACK_3), SomeInt(0)) }

\* payloads handed to MembershipRecipe.from_payload
StackOf(days) == PyDict([type |-> PyStr(<<"S", "T", "A", "C", "K">>), durationDays |-> days])
SetExpiryOf(target) ==
    PyDict([type |-> PyStr(<<"S", "E", "T", "_", "E", "X", "P", "I", "R", "Y">>),
            targetExpiryUtc |-> target])
PayloadSamples ==
    { PyNone, PyList(<<PyNum(1)>>), PyStr(<<"S", "T", "A", "C", "K">>), PyNum(3),
      EmptyDict,
      PyDict([durationDays |-> PyNum(3)]),
      PyDict([type |-> PyNum(3), durationDays |-> PyNum(3)]),
      PyDict([type |-> PyNone, durationDays |-> PyNum(3)]),
      PyDict([type |-> PyStr(<<"R", "E", "N", "E", "W">>), durationDays |-> PyNum(3)]),
      PyDict([type |-> PyStr(<<>>), durationDays |-> PyNum(3)]),
      PyDict([type |-> PyStr(<<" ", "s", "t", "a", "c", "k", "\n">>),
              durationDays |-> PyNum(3)]),
      PyDict([type |-> PyStr(<<"S", "T", "A", "C", "K">>)]),
      StackOf(PyNone), StackOf(PyNum(0)), StackOf(PyNum(30)), StackOf(PyNum(-1)),
      StackOf(PyBool(TRUE)), StackOf(PyFloat(19)), StackOf(PyFloat(-5)),
      StackOf(PyFloat(-15)), StackOf(PyFloatSpecial("nan")),
      StackOf(PyFloatSpecial("inf")), StackOf(PyFloatSpecial("-inf")),
      StackOf(PyStr(<<"1", "2">>)), StackOf(PyStr(<<" ", "7", " ">>)),
      StackOf(PyStr(<<"-", "1">>)), StackOf(PyStr(<<"1", ".", "5">>)),
      StackOf(PyStr(<<>>)), StackOf(PyList(<<PyNum(1)>>)), StackOf(EmptyDict),
      PyDict([type |-> PyStr(<<"S", "E", "T", "_", "E", "X", "P", "I", "R", "Y">>)]),
      SetExpiryOf(PyNone), SetExpiryOf(PyNum(3)),
      SetExpiryOf(PyStr(Hour(2026, 1, 1, 0))),
      SetExpiryOf(PyStr(<<" ">> \o Hour(2026, 1, 1, 0) \o <<"\n">>)),
      SetExpiryOf(PyStr(HourFeb30)),
      SetExpiryOf(PyStr(SubSeq(Hour(2026, 1, 1, 0), 1, 9))),
      SetExpiryOf(PyStr(Hour(2026, 1, 1, 0) \o <<"0">>)),
      SetExpiryOf(PyStr(<<"2", "0", "2", "6", "-", "0", "1", "-", "0", "1">>)),
      SetExpiryOf(PyStr(<<>>)),
      PyDict([type |-> PyStr(<<"s", "e", "t", "_", "e", "x", "p", "i", "r", "y">>),
              targetExpiryUtc |-> PyStr(Hour(2026, 1, 1, 0)),
              durationDays |-> PyNum(-1)]) }

\* arguments of a direct call of update_preferred_username
UserIdSamples == {UserId, PyStr(<<>>), PyNone}
NewNameSamples == {PyStr(<<"x", "0", "A", "A", "A", "A", "A", "A">>), PyStr(<<>>)}
IdTokenSamples == {IdToken, PyStr(<<>>), PyNone}

UpdateMembershipForOrder ==
    /\ last = NoCall
    /\ \E order \in OrderSamples, environ \in EnvSamples, now_hour \in OrderNowSamples,
          prefix \in OrderPrefixSamples, reply \in ReplySamples :
         last' = [op |-> "update_membership_for_order", order |-> order,
                  environ |-> environ, now_hour |-> now_hour, prefix |-> prefix,
                  reply |-> reply,
                  result |-> update_membership_for_order(order, environ, now_hour,
                                                         prefix, reply)]
    /\ UNCHANGED <<digestOf, token, origin, memberExpire, payment_orders, cache_file>>

\* scripts/test_authing_update.py, the end of main: the return value of
\* update_membership_for_order is the success the script reports
ReportOutcome ==
    /\ last.op = "update_membership_for_order"
    /\ ~last.result.raised
    /\ last' = [op |-> "main", call |-> last, success |-> last.result.value,
                outcome |-> IF PyTruthy(last.result.value) THEN "succeeded" ELSE "failed",
                exit_status |-> IF PyTruthy(last.result.value) THEN 0 ELSE 1]
    /\ UNCHANGED <<digestOf, token, origin, memberExpire, payment_orders, cache_file>>

UpdatePreferredUsername ==
    /\ last = NoCall
    /\ \E user_id \in UserIdSamples, preferred_username \in NewNameSamples,
          tok \in IdTokenSamples, environ \in EnvSamples, reply \in ReplySamples :
         last' = [op |-> "update_preferred_username", user_id |-> user_id,
                  preferred_username |-> preferred_username, token |-> tok,
                  environ |-> environ, reply |-> reply,
                  result |-> update_preferred_username(user_id, preferred_username, tok,
                                                       environ, reply)]
    /\ UNCHANGED <<digestOf, token, origin, memberExpire, payment_orders, cache_file>>

FromPayload ==
    /\ last = NoCall
    /\ \E payload \in PayloadSamples :
         last' = [op |-> "from_payload", payload |-> payload,
                  result |-> from_payload(payload)]
    /\ UNCHANGED <<digestOf, token, origin, memberExpire, payment_orders, cache_file>>

ExtractMembershipRecipe ==
    /\ last = NoCall
    /\ \E order \in OrderSamples :
         last' = [op |-> "_extract_membership_recipe", order |-> order,
                  candidates |-> Candidates(order),
                  result |-> _extract_membership_recipe(order)]
    /\ UNCHANGED <<digestOf, token, origin, memberExpire, payment_orders, cache_file>>

NextOrder ==
    \/ UpdateMembershipForOrder
    \/ ReportOutcome
    \/ UpdatePreferredUsername
    \/ FromPayload
    \/ ExtractMembershipRecipe

SpecOrder == InitCodec /\ [][NextOrder]_vars

(***************************************************************************)
(* One member across orders.  token is the preferredUsername the identity  *)
(* provider stores for the member and memberExpire the expiry written in   *)
(* it; origin holds the orders: those captured and not yet processed, and  *)
(* what became of those processed.  An order carries in its user_info the  *)
(* token the member held when the order was created (payment.py l.85-87);  *)
(* the provider stores the new token when it answers 201.                  *)
(***************************************************************************)
MaxOrders == 2

MemberRecipes == {JSON_STACK_30, JSON_STACK_90, JSON_SET_2036, JSON_SET_ARABIC_2035}
MemberNowSamples == {Hour(2025, 6, 1, 12), Hour(2025, 8, 1, 0)}
MemberReplies == {Response(201), Response(500)}

\* the ten digits decode_membership returns for an hour encode_membership took
EncodedHour(h) == [i \in 1..Len(h) |-> DIGITS[DigitValue(h[i]) + 1]]

\* the hour of the last call
Clock == IF "now_hour" \in DOMAIN last THEN last.now_hour ELSE Hour(2025, 6, 1, 12)

\* the sequence without its i-th element
Without(seq, i) == SubSeq(seq, 1, i - 1) \o SubSeq(seq, i + 1, Len(seq))

\* the identity provider answered 201 to the request of the update
Acknowledged(result) ==
    /\ ~result.raised
    /\ Len(result.posted) = 1
    /\ result.value /= PyNone
    /\ result.value.v.response.ok

InitMember ==
    /\ digestOf = (SecretA :> DigestAny) @@ (SecretB :> DigestModM2)
    /\ \/ token = None /\ memberExpire = None
       \/ token = HeldValid /\ memberExpire = Hour(2025, 7, 1, 0)
    /\ origin = [kind |-> "orders", captured |-> <<>>, processed |-> <<>>]
    /\ last = NoCall
    /\ payment_orders = NoOrders
    /\ cache_file = None

\* an order is created with the user_info of the member as it is now
CaptureOrder ==
    /\ Len(origin.captured) + Len(origin.processed) < MaxOrders
    /\ \E description \in MemberRecipes :
         origin' = [origin EXCEPT !.captured =
                       Append(@, Order(IF token = None THEN PyDict(User)
                                       ELSE Holding(PyStr(token)),
                                       PyJsonStr(description), SomeInt(0)))]
    /\ last' = [op |-> "capture", now_hour |-> Clock]
    /\ UNCHANGED <<digestOf, token, memberExpire, payment_orders, cache_file>>

\* update_membership_for_order on a captured order, the clock not going back
ProcessOrder ==
    /\ \E i \in 1..Len(origin.captured), now_hour \in MemberNowSamples,
          reply \in MemberReplies :
         /\ ~StrLt(now_hour, Clock)
         /\ last' = [op |-> "update_membership_for_order", order |-> origin.captured[i],
                     environ |-> EnvAll, now_hour |-> now_hour, prefix |-> <<"x">>,
                     reply |-> reply, replaced |-> token, replacedExpire |-> memberExpire,
                     result |-> update_membership_for_order(origin.captured[i], EnvAll,
                                                            now_hour, <<"x">>, reply)]
         /\ origin' = [origin EXCEPT
                         !.captured = Without(@, i),
                         !.processed =
                             Append(@, [order |-> origin.captured[i],
                                        now_hour |-> now_hour,
                                        replacedExpire |-> memberExpire,
                                        acknowledged |-> Acknowledged(last'.result)])]
    /\ token' = IF Acknowledged(last'.result) THEN last'.result.new_token ELSE token
    /\ memberExpire' = IF Acknowledged(last'.result)
                       THEN EncodedHour(last'.result.new_expire)
                       ELSE memberExpire
    /\ UNCHANGED <<digestOf, payment_orders, cache_file>>

NextMember == CaptureOrder \/ ProcessOrder

SpecMember == InitMember /\ [][NextMember]_vars

(***************************************************************************)
(* payment.py: Alipay notifications.  A form is a record of the fields     *)
(* Alipay posts; sign and sign_type are character sequences.  RSA is kept  *)
(* as what it provides: SignatureOf(content) is the base64 text of the     *)
(* signature Alipay's private key makes over the sign content, and only    *)
(* that text verifies under Alipay's public key.                           *)
(***************************************************************************)
HTTPException(status_code, detail) ==
    [ok |-> FALSE, type |-> "HTTPException", status_code |-> status_code,
     detail |-> detail]
AttributeError(msg) == [ok |-> FALSE, type |-> "AttributeError", msg |-> msg]
AlipayConfigurationError(msg) ==
    [ok |-> FALSE, type |-> "AlipayConfigurationError", msg |-> msg]

HTTP_400_BAD_REQUEST == 400
HTTP_404_NOT_FOUND == 404

ALIPAY_SUCCESS_STATUSES == {"TRADE_SUCCESS", "TRADE_FINISHED"}

\* models.py: PaymentStatus and the methods PaymentOrder defines
PaymentStatus == {"pending", "processing", "succeeded", "failed"}
PaymentOrderMethods == {"mark_processing", "mark_succeeded", "mark_failed"}
PaymentOrderRow(status, trade_no, buyer_logon_id) ==
    [status |-> status, trade_no |-> trade_no, buyer_logon_id |-> buyer_logon_id]
mark_succeeded(order, trade_no, buyer_logon_id) ==
    [order EXCEPT !.status = "succeeded", !.trade_no = trade_no,
                  !.buyer_logon_id = buyer_logon_id]
mark_failed(order) == [order EXCEPT !.status = "failed"]

\* str.replace(old, new) on character sequences
RECURSIVE Replace(_, _, _)
Replace(chars, old, new) ==
    IF Len(chars) < Len(old) THEN chars
    ELSE IF SubSeq(chars, 1, Len(old)) = old
    THEN new \o Replace(SubSeq(chars, Len(old) + 1, Len(chars)), old, new)
    ELSE <<chars[1]>> \o Replace(Tail(chars), old, new)

\* the text with "=" added up to a multiple of four characters
PadToFour(chars) == chars \o [i \in 1..((4 - (Len(chars) % 4)) % 4) |-> "="]

_normalize_signature(signature) ==
    PadToFour(
      Replace(Replace(
        Replace(Replace(Replace(
          Replace(Replace(Strip(signature), <<"%", "2", "B">>, <<"+">>),
                  <<"%", "2", "F">>, <<"/">>),
          <<" ">>, <<"+">>), <<"\n">>, <<>>), <<"\r">>, <<>>),
        <<"-">>, <<"+">>), <<"_">>, <<"/">>))

\* the character a field value contributes to the signature text
SignatureChar(value) ==
    CASE value = "TRADE_SUCCESS" -> "S"
      [] value = "TRADE_FINISHED" -> "F"
      [] value = "TRADE_CLOSED" -> "C"
      [] value = "order-1" -> "1"
      [] value = "order-2" -> "2"
      [] OTHER -> "0"

ALIPAY_PUBLIC_KEY == <<"alipay public key">>
OTHER_PUBLIC_KEY == <<"another public key">>

SignatureOf(content) ==
    <<"+", "/", SignatureChar(content.trade_status), SignatureChar(content.out_trade_no),
      "Q", "w", "=", "=">>

verify_with_rsa(public_key, message, signature) ==
    public_key = ALIPAY_PUBLIC_KEY /\ signature = SignatureOf(message)

\* the form without sign and sign_type (no value of a posted form is None)
SignContent(payload) == [k \in DOMAIN payload \ {"sign", "sign_type"} |-> payload[k]]

\* settings: alipay_app_id and the keys are configured or not
get_alipay_client(settings) ==
    IF ~settings.configured
    THEN AlipayConfigurationError("ALIPAY_APP_ID is not configured.")
    ELSE Ok([alipay_public_key |-> settings.alipay_public_key])

VerifyWithClient(payload, signature, client) ==
    IF ~client.ok THEN client
    ELSE IF client.value.alipay_public_key = None THEN Ok(FALSE)
    ELSE Ok(verify_with_rsa(client.value.alipay_public_key, SignContent(payload),
                            signature))

_verify_signature(payload, settings) ==
    IF "sign" \notin DOMAIN payload \/ ~Truthy(payload.sign) THEN Ok(FALSE)
    ELSE IF ~Truthy(_normalize_signature(payload.sign)) THEN Ok(FALSE)
    ELSE VerifyWithClient(payload, _normalize_signature(payload.sign),
                          get_alipay_client(settings))

\* the outcome of a handler: what it raised or returned and the table after it
Raised(exception, db) == [raised |-> TRUE, exception |-> exception, db |-> db]
ReturnedOrder(out_trade_no, db) ==
    [raised |-> FALSE, value |-> db[out_trade_no], db |-> db]

\* order.mark_paid(...) or order.mark_failed(), then the commit
UpdateOrder(db, payload) ==
    IF payload.trade_status \in ALIPAY_SUCCESS_STATUSES
    THEN IF "mark_paid" \in PaymentOrderMethods
         THEN ReturnedOrder(payload.out_trade_no,
                            [db EXCEPT ![payload.out_trade_no] =
                                mark_succeeded(@, payload.trade_no, payload.buyer_logon_id)])
         ELSE Raised(AttributeError("'PaymentOrder' object has no attribute 'mark_paid'"), db)
    ELSE ReturnedOrder(payload.out_trade_no,
                       [db EXCEPT ![payload.out_trade_no] = mark_failed(@)])

get_payment_order(db, out_trade_no) ==
    IF out_trade_no \notin DOMAIN db
    THEN HTTPException(HTTP_404_NOT_FOUND, "Order not found.")
    ELSE Ok(db[out_trade_no])

AfterVerify(db, payload, verified) ==
    IF ~verified.ok THEN Raised(verified, db)
    ELSE IF ~verified.value
    THEN Raised(HTTPException(HTTP_400_BAD_REQUEST, "Invalid signature."), db)
    ELSE IF ~get_payment_order(db, payload.out_trade_no).ok
    THEN Raised(get_payment_order(db, payload.out_trade_no), db)
    ELSE UpdateOrder(db, payload)

handle_async_notification(db, payload, raw_form, settings) ==
    AfterVerify(db, payload, _verify_signature(raw_form, settings))

\* what Alipay and others post: the fields of a notification, and the form
\* with a sign of the kind named
TradeStatusSamples == {"TRADE_SUCCESS", "TRADE_FINISHED", "TRADE_CLOSED"}
OutTradeNoSamples == {"order-1", "order-2", "order-9"}
NotificationOf(out_trade_no, trade_status) ==
    [out_trade_no |-> out_trade_no, trade_no |-> <<"T", "7">>, total_amount |-> "9.90",
     trade_status |-> trade_status, buyer_logon_id |-> <<"b", "@", "x">>]
SignKinds == {"alipay", "alipay-urlsafe", "forged", "replayed", "blank", "missing"}
SignOfKind(kind, content) ==
    CASE kind = "alipay" -> SignatureOf(content)
      [] kind = "alipay-urlsafe" ->
            <<" ">> \o Replace(Replace(SubSeq(SignatureOf(content), 1, 6),
                                       <<"+">>, <<"-">>), <<"/">>, <<"_">>) \o <<"\n">>
      [] kind = "forged" -> [SignatureOf(content) EXCEPT ![5] = "R"]
      [] kind = "replayed" ->
            SignatureOf([content EXCEPT !.trade_status =
                            IF @ = "TRADE_CLOSED" THEN "TRADE_SUCCESS" ELSE "TRADE_CLOSED"])
      [] OTHER -> <<" ">>
FormOf(kind, content) ==
    IF kind = "missing" THEN content
    ELSE content @@ [sign |-> SignOfKind(kind, content), sign_type |-> <<"R", "S", "A", "2">>]

SettingsSamples ==
    { [configured |-> TRUE, alipay_public_key |-> ALIPAY_PUBLIC_KEY],
      [configured |-> TRUE, alipay_public_key |-> OTHER_PUBLIC_KEY],
      [configured |-> FALSE, alipay_public_key |-> None] }

\* the rows the table holds when the service starts
InitPayment ==
    /\ digestOf = (SecretA :> DigestAny) @@ (SecretB :> DigestModM2)
    /\ token = None
    /\ origin = NoOrigin
    /\ last = NoCall
    /\ memberExpire = None
    /\ payment_orders =
         [out_trade_no \in {"order-1", "order-2"} |->
            IF out_trade_no = "order-1" THEN PaymentOrderRow("pending", None, None)
            ELSE PaymentOrderRow("succeeded", <<"T", "2">>, <<"a", "@", "x">>)]
    /\ cache_file = None

HandleAsyncNotification ==
    /\ \E out_trade_no \in OutTradeNoSamples, trade_status \in TradeStatusSamples,
          kind \in SignKinds, settings \in SettingsSamples :
         /\ last' = [op |-> "handle_async_notification",
                     payload |-> NotificationOf(out_trade_no, trade_status),
                     raw_form |-> FormOf(kind, NotificationOf(out_trade_no, trade_status)),
                     sign |-> kind, settings |-> settings, before |-> payment_orders,
                     result |-> handle_async_notification(
                                    payment_orders,
                                    NotificationOf(out_trade_no, trade_status),
                                    FormOf(kind, NotificationOf(out_trade_no, trade_status)),
                                    settings)]
         /\ payment_orders' = last'.result.db
    /\ UNCHANGED <<digestOf, token, origin, memberExpire, cache_file>>

NextPayment == HandleAsyncNotification

SpecPayment == InitPayment /\ [][NextPayment]_vars

(***************************************************************************)
(* version_cache.py.  The clock is in milliseconds and stays within one    *)
(* day; the cache file is absent, unreadable as JSON, or holds a record.   *)
(***************************************************************************)
_max_age_ms == 60000
_sources == <<"source-1", "source-2">>

AbsentFile == [kind |-> "absent"]
CorruptFile == [kind |-> "corrupt"]
CacheRecord(lastUpdate, data) == [kind |-> "record", lastUpdate |-> lastUpdate, data |-> data]
NoRecord == [kind |-> "none"]

\* json.load of the file, None when there is no file or reading it fails
_load_cache(file) == IF file.kind = "record" THEN file ELSE NoRecord

\* time.strftime("%Y-%m-%dT%H:%M:%S", time.localtime()) at a second of the day
DATE_TEXT == <<"2", "0", "2", "5", "-", "0", "6", "-", "0", "1", "T">>
StrfLocal(second) ==
    DATE_TEXT \o TwoDigits(second \div 3600) \o <<":">>
              \o TwoDigits((second \div 60) % 60) \o <<":">> \o TwoDigits(second % 60)

\* time.mktime(time.strptime(text, "%Y-%m-%dT%H:%M:%S")) as a second of the day
StrpLocalFields(hh, mm, ss) ==
    IF \E i \in 1..6 : (hh \o mm \o ss)[i] \notin Range(DIGITS)
    THEN ValueError("time data does not match format")
    ELSE IF SmallIntOfStr(hh) > 23 \/ SmallIntOfStr(mm) > 59 \/ SmallIntOfStr(ss) > 61
    THEN ValueError("time data does not match format")
    ELSE Ok(SmallIntOfStr(hh) * 3600 + SmallIntOfStr(mm) * 60 + SmallIntOfStr(ss))
StrpLocal(text) ==
    IF Len(text) /= 19 \/ SubSeq(text, 1, 11) /= DATE_TEXT
       \/ text[14] /= ":" \/ text[17] /= ":"
    THEN ValueError("time data does not match format")
    ELSE StrpLocalFields(SubSeq(text, 12, 13), SubSeq(text, 15, 16), SubSeq(text, 18, 19))

_is_fresh(record, now_ms) ==
    IF record.kind /= "record" THEN FALSE
    ELSE IF ~StrpLocal(record.lastUpdate).ok THEN FALSE
    ELSE now_ms - StrpLocal(record.lastUpdate).value * 1000 < _max_age_ms

_is_valid_payload(payload) ==
    IF ~IsMapping(payload) THEN FALSE
    ELSE IF "version" \notin DOMAIN payload.v THEN FALSE
    ELSE /\ "downloadurl" \in DOMAIN payload.v
         /\ payload.v.downloadurl.t = "list"
         /\ Len(payload.v.downloadurl.v) > 0

\* what a source answers: a response with a status and a body, or the request fails
Answer(status, body) == [kind |-> "response", status |-> status, body |-> body]
JsonBody(value) == [kind |-> "json", value |-> value]
NoJsonBody == [kind |-> "text"]
RequestFails == [kind |-> "exception"]

\* the payload with url (the first download link) and, when it has none and
\* there are more links, backupUrls
WithBackupUrls(data, converted) ==
    IF "backupUrls" \notin DOMAIN converted.v /\ Len(data.v.downloadurl.v) > 1
    THEN PyDict([backupUrls |-> PyList(Tail(data.v.downloadurl.v))] @@ converted.v)
    ELSE converted
Converted(data) ==
    WithBackupUrls(data, PyDict([url |-> data.v.downloadurl.v[1]] @@ data.v))

\* the sources from the i-th on; contacted counts the requests made
Fetched(latest, contacted) == [latest |-> latest, contacted |-> contacted]

\* variant: a later source with a valid payload is preferred to an earlier one
RECURSIVE FetchFromPreferringLater(_, _)
FetchFromPreferringLater(answers, i) ==
    IF i > Len(answers) THEN Fetched(PyNone, i - 1)
    ELSE IF FetchFromPreferringLater(answers, i + 1).latest /= PyNone
    THEN FetchFromPreferringLater(answers, i + 1)
    ELSE IF answers[i].kind = "exception" THEN Fetched(PyNone, Len(answers))
    ELSE IF answers[i].status /= 200 THEN Fetched(PyNone, Len(answers))
    ELSE IF answers[i].body.kind /= "json" THEN Fetched(PyNone, Len(answers))
    ELSE IF _is_valid_payload(answers[i].body.value)
    THEN Fetched(Converted(answers[i].body.value), Len(answers))
    ELSE Fetched(PyNone, Len(answers))

RECURSIVE FetchFrom(_, _)
FetchFrom(answers, i) ==
    IF i > Len(answers) THEN Fetched(PyNone, i - 1)
    ELSE IF answers[i].kind = "exception" THEN FetchFrom(answers, i + 1)
    ELSE IF answers[i].status /= 200 THEN FetchFrom(answers, i + 1)
    ELSE IF answers[i].body.kind /= "json" THEN FetchFrom(answers, i + 1)
    ELSE IF _is_valid_payload(answers[i].body.value)
    THEN Fetched(Converted(answers[i].body.value), i)
    ELSE FetchFrom(answers, i + 1)

\* answers[i] is what _sources[i] answers during this request
_fetch_from_sources(answers) == FetchFrom(answers, 1)

\* _save_cache: the record is written, or opening the file fails, or the write
\* stops after the file was truncated
SaveOutcomes == {"written", "refused", "truncated"}
_save_cache(file, record, save) ==
    CASE save = "written" -> record
      [] save = "refused" -> file
      [] OTHER -> CorruptFile

CACHE_HEADERS == "public, s-maxage=120, stale-while-revalidate=30"
HTTP_200_OK == 200
HTTP_503_SERVICE_UNAVAILABLE == 503
JSONResponse(status_code, content, cache_control) ==
    [status_code |-> status_code, content |-> content, cache_control |-> cache_control]

\* the outcome of a request: the response, the file after it, the requests made
Served(response, file, contacted) ==
    [raised |-> FALSE, response |-> response, file |-> file, contacted |-> contacted]

AfterFetch(file, cached, now_ms, fetched, save) ==
    IF PyTruthy(fetched.latest)
    THEN Served(JSONResponse(HTTP_200_OK, fetched.latest, CACHE_HEADERS),
                _save_cache(file, CacheRecord(StrfLocal(now_ms \div 1000), fetched.latest),
                            save),
                fetched.contacted)
    ELSE IF cached.kind = "record"
    THEN Served(JSONResponse(HTTP_200_OK,
                             PyDict([stale |-> PyBool(TRUE)] @@ cached.data.v),
                             CACHE_HEADERS),
                file, fetched.contacted)
    ELSE Served(JSONResponse(HTTP_503_SERVICE_UNAVAILABLE,
                             PyDict([error |-> PyStr(<<"No version data">>)]),
                             "no-store"),
                file, fetched.contacted)

get_latest_windows_version(file, now_ms, answers, save) ==
    IF _is_fresh(_load_cache(file), now_ms)
    THEN Served(JSONResponse(HTTP_200_OK, _load_cache(file).data, CACHE_HEADERS), file, 0)
    ELSE AfterFetch(file, _load_cache(file), now_ms, _fetch_from_sources(answers), save)

\* payloads of the upstream sources
VersionText(minor) == PyStr(<<"1", ".", minor>>)
Link(n) == PyStr(<<"h", "t", "t", "p", "s", ":", "/", "/", "d", n>>)
PayloadOneLink == PyDict([version |-> VersionText("2"), downloadurl |-> PyList(<<Link("1")>>)])
PayloadTwoLinks ==
    PyDict([version |-> VersionText("3"), downloadurl |-> PyList(<<Link("1"), Link("2")>>)])
PayloadWithBackups ==
    PyDict([version |-> VersionText("4"), downloadurl |-> PyList(<<Link("1"), Link("2")>>),
            backupUrls |-> PyList(<<Link("9")>>)])
PayloadOldFormat == PyDict([version |-> VersionText("1"), url |-> Link("1")])
PayloadNoLinks == PyDict([version |-> VersionText("2"), downloadurl |-> PyList(<<>>)])

FirstSourceAnswers ==
    { Answer(500, NoJsonBody), Answer(200, JsonBody(PayloadOldFormat)),
      Answer(200, JsonBody(PayloadOneLink)), RequestFails }
SecondSourceAnswers ==
    { Answer(404, NoJsonBody), Answer(200, NoJsonBody), Answer(200, JsonBody(PayloadNoLinks)),
      Answer(200, JsonBody(PayloadTwoLinks)), Answer(200, JsonBody(PayloadWithBackups)) }

\* readings of time.time(), in milliseconds
NowMsSamples == {0, 1500, 60000, 61000, 130000}
ClockMs == IF "now_ms" \in DOMAIN last THEN last.now_ms ELSE 0

InitVersion ==
    /\ digestOf = (SecretA :> DigestAny) @@ (SecretB :> DigestModM2)
    /\ token = None
    /\ origin = NoOrigin
    /\ last = NoCall
    /\ memberExpire = None
    /\ payment_orders = NoOrders
    /\ cache_file \in {AbsentFile, CorruptFile}

GetLatestWindowsVersion ==
    /\ \E now_ms \in NowMsSamples, first \in FirstSourceAnswers,
          second \in SecondSourceAnswers, save \in SaveOutcomes :
         /\ now_ms >= ClockMs
         /\ last' = [op |-> "get_latest_windows_version", now_ms |-> now_ms,
                     answers |-> <<first, second>>, save |-> save, before |-> cache_file,
                     result |-> get_latest_windows_version(cache_file, now_ms,
                                                           <<first, second>>, save)]
         /\ cache_file' = last'.result.file
    /\ UNCHANGED <<digestOf, token, origin, memberExpire, payment_orders>>

NextVersion == GetLatestWindowsVersion

SpecVersion == InitVersion /\ [][NextVersion]_vars

(***************************************************************************)
(* Properties of the codec primitives                                      *)
(***************************************************************************)
\* C9: every offset derive_offset_int returns lies in 1 .. 10^22 - 1 (never 0,
\* never 10^22 or more), whatever the 32 digest bytes are, and is the offset
\* every earlier call with the same secret returned.
C9_OffsetInRangeAndRepeatable ==
    last.op = "derive_offset_int" =>
        /\ IntLe(Nat2Int(1), last.result)
        /\ IntLe(last.result, IntSub(IntPow10(22), Nat2Int(1)))
        /\ last.result /= Nat2Int(0)
        /\ \A r \in last.earlier[last.offset_secret] : r = last.result

\* a repeated call for a secret whose digest is all ones, after a call for the
\* other secret
C9_Witness ==
    /\ last.op = "derive_offset_int"
    /\ digestOf[last.offset_secret] = DigestOnes
    /\ last.earlier[last.offset_secret] /= {}
    /\ \E s \in Secrets : s /= last.offset_secret /\ last.earlier[s] /= {}

\* C10: for n >= 0, base62_to_big_int(big_int_to_base62(n)) = n; the text has
\* only characters of 0-9A-Za-z, is "0" for n = 0 and has no leading "0" for n > 0.
C10_Base62RoundTrip ==
    (last.op = "base62" /\ IntLe(Nat2Int(0), last.number)) =>
        /\ last.encoded.ok
        /\ Len(last.encoded.value) >= 1
        /\ \A i \in 1..Len(last.encoded.value) :
               last.encoded.value[i] \in Range(DIGITS) \cup Range(UPPER) \cup Range(LOWER)
        /\ last.decoded = Ok(last.number)
        /\ (last.number = Nat2Int(0) => last.encoded.value = <<"0">>)
        /\ (last.number /= Nat2Int(0) => last.encoded.value[1] /= "0")

\* a number above 10^22 that came back from its base62 text
C10_Witness ==
    /\ last.op = "base62"
    /\ IntLt(IntPow10(22), last.number)
    /\ last.encoded.ok
    /\ Len(last.encoded.value) > 13
    /\ last.decoded = Ok(last.number)

(***************************************************************************)
(* Properties of the recipe engine                                         *)
(***************************************************************************)
\* ten decimal digits
IsHourString(v) == v /= None /\ Len(v) = 10 /\ \A i \in 1..10 : v[i] \in Range(DIGITS)

\* the later of the current expiry and the clock (the clock when there is none)
LaterOf(current, now) ==
    IF current /= None /\ StrLt(now, current) THEN current ELSE now

\* the calendar by counting: the days up to and including y-m-d, from 0001-01-01
RefLeap(y) == (y % 4 = 0 /\ y % 100 /= 0) \/ y % 400 = 0
RefMonthLen(y, m) ==
    IF m = 2 THEN (IF RefLeap(y) THEN 29 ELSE 28)
    ELSE IF m \in {4, 6, 9, 11} THEN 30 ELSE 31
RefDayCount(y, m, d) ==
    365 * (y - 1) + Cardinality({k \in 1..(y - 1) : RefLeap(k)})
    + Cardinality({md \in (1..(m - 1)) \X (1..31) : md[2] <= RefMonthLen(y, md[1])})
    + d
RefNum(v, a, b) == SmallIntOfStr(SubSeq(v, a, b))
RefIsCalendarHour(v) ==
    /\ IsHourString(v)
    /\ RefNum(v, 1, 4) >= 1
    /\ RefNum(v, 5, 6) \in 1..12
    /\ RefNum(v, 7, 8) >= 1
    /\ RefNum(v, 7, 8) <= RefMonthLen(RefNum(v, 1, 4), RefNum(v, 5, 6))
    /\ RefNum(v, 9, 10) <= 23
RefDayOf(v) == RefDayCount(RefNum(v, 1, 4), RefNum(v, 5, 6), RefNum(v, 7, 8))

\* C3: for a Stack recipe of durationDays >= 0 or a SetExpiry recipe, a current
\* expiry that is absent or ten digits, and any clock reading, a result that
\* compute_new_expiry returns is never earlier than the later of the current
\* expiry and the clock.
C3_ResultNotBeforeLater ==
    ( /\ last.op = "compute_new_expiry"
      /\ \/ last.self.type = "STACK" /\ OrZero(last.self.duration_days) >= 0
         \/ last.self.type = "SET_EXPIRY"
      /\ last.current_expire = None \/ IsHourString(last.current_expire)
      /\ last.result.ok )
    => ~StrLt(last.result.value, LaterOf(last.current_expire, last.now_hour))

\* C4: SetExpiry(target) returns exactly target, except that with a current
\* expiry present and target <= current expiry (lapsed or not) it fails with the
\* monotonicity error and returns nothing.
C4_SetExpiryExactOrMonotonicError ==
    ( /\ last.op = "compute_new_expiry"
      /\ last.self.type = "SET_EXPIRY"
      /\ IsHourString(last.self.target_expiry_utc) )
    => IF last.current_expire /= None
          /\ ( last.self.target_expiry_utc = last.current_expire
               \/ StrLt(last.self.target_expiry_utc, last.current_expire) )
       THEN last.result = ValueError(MSG_MONOTONIC)
       ELSE last.result = Ok(last.self.target_expiry_utc)

\* a target equal to a current expiry that has already lapsed is refused
C4_Witness ==
    /\ last.op = "compute_new_expiry"
    /\ last.self = SetExpiry(Hour(2025, 2, 1, 0))
    /\ last.current_expire = Hour(2025, 2, 1, 0)
    /\ last.now_hour = Hour(2025, 6, 1, 12)
    /\ last.result = ValueError(MSG_MONOTONIC)

\* the base of a Stack recipe: the current expiry if present and strictly after
\* the clock, the clock otherwise
RefBase(current, now) ==
    IF current /= None /\ current /= <<>> /\ current /= now /\ StrLt(now, current)
    THEN current ELSE now

\* C5: Stack(durationDays) returns the hour durationDays calendar days after the
\* base, ten digits with the hour of day unchanged, whenever that day lies in
\* the years 1..9999.
C5_StackAddsCalendarDays ==
    ( /\ last.op = "compute_new_expiry"
      /\ last.self.type = "STACK"
      /\ RefIsCalendarHour(RefBase(last.current_expire, last.now_hour))
      /\ RefDayOf(RefBase(last.current_expire, last.now_hour))
             + OrZero(last.self.duration_days) \in 1..RefDayCount(9999, 12, 31) )
    => /\ last.result.ok
       /\ RefIsCalendarHour(last.result.value)
       /\ RefDayOf(last.result.value)
              = RefDayOf(RefBase(last.current_expire, last.now_hour))
                + OrZero(last.self.duration_days)
       /\ SubSeq(last.result.value, 9, 10)
              = SubSeq(RefBase(last.current_expire, last.now_hour), 9, 10)

\* Stack(30) with no current expiry at 2025060112 yields 2025070112
C5_Witness ==
    /\ last.op = "compute_new_expiry"
    /\ last.self = Stack(30)
    /\ last.current_expire = None
    /\ last.now_hour = <<"2","0","2","5","0","6","0","1","1","2">>
    /\ last.result = Ok(<<"2","0","2","5","0","7","0","1","1","2">>)

(***************************************************************************)
(* Properties of the token codec                                           *)
(***************************************************************************)
\* the call decoded the token an encode call returned, unedited, with the
\* secrets of that encode call
DecodedOwnToken ==
    /\ last.op = "decode"
    /\ origin.kind = "encoded"
    /\ last.offset_secret = origin.offset_secret
    /\ last.hmac_secret = origin.hmac_secret

ReturnsOriginalFields ==
    /\ last.result.ok
    /\ last.result.value.Flag0 = origin.Flag0
    /\ last.result.value.Flag1 = origin.Flag1
    /\ last.result.value.rechargeDateTime = origin.rechargeDateTime
    /\ last.result.value.expireDateTime = origin.expireDateTime

\* the year of an hour string lies in 2024..2100 and the expiry is not before it
RefYearOf(hour) == SmallIntOfStr(SubSeq(hour, 1, 4))
RefPlausible(issued, expiry) ==
    /\ RefYearOf(issued) \in 2024..2100
    /\ ~StrLt(expiry, issued)

\* every character is one of the ASCII digits 0-9
RefAsciiDigits(text) == \A i \in 1..Len(text) : text[i] \in Range(DIGITS)

\* C1 as claimed: decoding what encode_membership returned, with the same
\* secrets, succeeds and returns the original four fields, for all fields the
\* encoder accepts and every prefix.
C1_RoundTripAllAccepted == DecodedOwnToken => ReturnsOriginalFields

\* C1 as amended: the same for fields made of the ASCII digits 0-9 whose issue
\* year lies in 2024..2100 and whose expiry hour is not lexicographically less
\* than the issue hour.
C1_RoundTripPlausible ==
    ( /\ DecodedOwnToken
      /\ RefAsciiDigits(origin.Flag0 \o origin.Flag1
                        \o origin.rechargeDateTime \o origin.expireDateTime)
      /\ RefPlausible(origin.rechargeDateTime, origin.expireDateTime) )
    => ReturnsOriginalFields

\* flags 0 and 7 (a leading zero of the 22-digit number) and an expiry equal to
\* the issue hour came back
C1_Witness ==
    /\ DecodedOwnToken
    /\ origin.Flag0 = <<"0">>
    /\ origin.Flag1 = <<"7">>
    /\ origin.expireDateTime = origin.rechargeDateTime
    /\ ReturnsOriginalFields

\* the last mac_len characters of the token are not the truncated HMAC of the
\* characters before them under the MAC secret of the decode call
TagMismatch ==
    /\ last.op = "decode"
    /\ SliceFromNeg(last.token, MAC_LEN)
           /= hmac_trunc_base64url(SliceToNeg(last.token, MAC_LEN), last.hmac_secret, MAC_LEN)

AuthenticationError ==
    /\ ~last.result.ok
    /\ last.result.type = "ValueError"
    /\ last.result.msg = MSG_HMAC

\* C2 as claimed: decode_membership fails with the authentication error
\* whenever the tag does not match, in particular for a token with one
\* character changed and for a token decoded with another MAC secret.
C2_TamperDetectedAlways ==
    /\ TagMismatch => AuthenticationError
    /\ (last.op = "decode" /\ origin.kind = "tampered") => AuthenticationError
    /\ (last.op = "decode" /\ origin.kind = "encoded"
            /\ last.hmac_secret /= origin.hmac_secret) => AuthenticationError

\* C2 as amended: the same for tokens longer than prefix_len + mac_len.
C2_TamperDetectedWhenLongEnough ==
    /\ (TagMismatch /\ Len(last.token) > PREFIX_LEN + MAC_LEN) => AuthenticationError
    /\ (last.op = "decode" /\ origin.kind = "tampered") => AuthenticationError
    /\ (last.op = "decode" /\ origin.kind = "encoded"
            /\ last.hmac_secret /= origin.hmac_secret) => AuthenticationError

\* a token with one character before its tag changed, decoded with the secrets it
\* was encoded with
C2_Witness ==
    /\ last.op = "decode"
    /\ origin.kind = "tampered"
    /\ last.hmac_secret = origin.hmac_secret
    /\ last.offset_secret = origin.offset_secret
    /\ \E i \in 1..(Len(last.token) - MAC_LEN) : last.token[i] = "!"
    /\ AuthenticationError

\* C6: decode_membership reports the first failing check of: length, tag,
\* base62 body, field sanity; a token of sufficient length with a wrong tag gets
\* the authentication failure whatever its body is, and nothing after the tag
\* comparison (base62 conversion, offset removal, field parsing) has run then.
C6_ChecksInOrder ==
    last.op = "decode" =>
        IF Len(last.token) <= PREFIX_LEN + MAC_LEN
        THEN /\ ~last.result.ok
             /\ last.result.msg = MSG_TOO_SHORT
             /\ last.result.ran = <<"type", "length">>
        ELSE IF TagMismatch
        THEN /\ AuthenticationError
             /\ last.result.ran = <<"type", "length", "hmac">>
        ELSE IF \E i \in (PREFIX_LEN + 1)..(Len(last.token) - MAC_LEN) :
                    last.token[i] \notin Range(BASE62_CHARS)
        THEN /\ ~last.result.ok
             /\ last.result.msg = MSG_SEGMENT
             /\ last.result.ran = <<"type", "length", "hmac", "segment">>
        ELSE /\ SubSeq(last.result.ran, 1, 8) = RAN_SANITY
             /\ ~last.result.ok => last.result.msg = MSG_CORRUPT

\* a token longer than prefix and tag whose tag is wrong and whose body is no
\* base62 text is refused for its tag
C6_Witness ==
    /\ last.op = "decode"
    /\ Len(last.token) > PREFIX_LEN + MAC_LEN
    /\ TagMismatch
    /\ last.token[PREFIX_LEN + 1] \notin Range(BASE62_CHARS)
    /\ AuthenticationError

\* the 22 digits a decode call recovers from a token of encode_membership when
\* the tag verifies: the encoded digits, moved by the difference of the offsets
RefRecovered ==
    FormatZeroPadded(
        IntMod(IntSub(IntAdd(IntOfStr(origin.Flag0 \o origin.Flag1
                                      \o origin.rechargeDateTime \o origin.expireDateTime),
                             derive_offset_int(origin.offset_secret)),
                      derive_offset_int(last.offset_secret)),
               IntPow10(22)),
        22)

\* C7: once the tag has verified, the token is rejected iff the year of the
\* recovered issue hour is outside 2024..2100 or the recovered expiry hour is
\* lexicographically less than it (equal is accepted); both rejections are the
\* same error type with the same message.
C7_SanityChecks ==
    (last.op = "decode" /\ origin.kind = "encoded" /\ last.hmac_secret = origin.hmac_secret)
    => IF RefPlausible(SubSeq(RefRecovered, 3, 12), SubSeq(RefRecovered, 13, 22))
       THEN /\ last.result.ok
            /\ last.result.value.rechargeDateTime = SubSeq(RefRecovered, 3, 12)
            /\ last.result.value.expireDateTime = SubSeq(RefRecovered, 13, 22)
       ELSE /\ ~last.result.ok
            /\ last.result.type = "ValueError"
            /\ last.result.msg = MSG_CORRUPT

\* an issue hour in 2100 with a later expiry is accepted
C7_Witness ==
    /\ DecodedOwnToken
    /\ RefYearOf(origin.rechargeDateTime) = 2100
    /\ StrLt(origin.rechargeDateTime, origin.expireDateTime)
    /\ last.result.ok

\* the error decode_membership raises for corrupt fields (an issue year of 2023)
RefCorruptionError ==
    DecodeChecked(<<"0">>, <<"0">>, Hour(2023, 1, 1, 0), Hour(2023, 1, 1, 0), Hour(2025, 1, 1, 0))

\* C8: the error raised on a tag mismatch has the type and the message of the
\* error raised for corrupt fields.
C8_TagErrorLikeCorruption ==
    (last.op = "decode" /\ Len(last.token) > PREFIX_LEN + MAC_LEN /\ TagMismatch)
    => /\ ~last.result.ok
       /\ last.result.type = RefCorruptionError.type
       /\ last.result.msg = RefCorruptionError.msg

\* the characters 0-9A-Za-z
RefBase62Alphabet == Range(DIGITS) \cup Range(UPPER) \cup Range(LOWER)
RefOutsideBase62(text) == \E i \in 1..Len(text) : text[i] \notin RefBase62Alphabet

\* the characters of the decoded token between the prefix and the tag
RefSegment == SubSeq(last.token, PREFIX_LEN + 1, Len(last.token) - MAC_LEN)

\* C11: base62_to_big_int raises for every string with a character outside
\* 0-9A-Za-z; decode_membership, once the tag has verified, rejects a token whose
\* segment after the prefix is empty or has such a character with the
\* invalid-segment error, before any conversion to an integer or to fields.
C11_InvalidSegmentRejected ==
    /\ (last.op = "base62_to_big_int" /\ RefOutsideBase62(last.value))
       => (~last.result.ok /\ last.result.type = "ValueError")
    /\ ( /\ last.op = "decode"
         /\ Len(last.token) > PREFIX_LEN + MAC_LEN
         /\ ~TagMismatch
         /\ (RefSegment = <<>> \/ RefOutsideBase62(RefSegment)) )
       => /\ ~last.result.ok
          /\ last.result.type = "ValueError"
          /\ last.result.msg = MSG_SEGMENT
          /\ \A i \in 1..Len(last.result.ran) :
                 last.result.ran[i] \notin {"base62", "offset", "fields", "sanity", "expired"}

\* a body with "!" in the middle under a tag that verifies
C11_Witness ==
    /\ last.op = "decode"
    /\ origin.kind = "forged"
    /\ last.hmac_secret = origin.hmac_secret
    /\ ~TagMismatch
    /\ RefSegment = <<"a", "!", "b">>
    /\ last.result.msg = MSG_SEGMENT

\* a str of exactly `width` decimal digits (of ASCII or of another script)
RefDecimalField(value, width) ==
    /\ value /= None
    /\ Len(value) = width
    /\ \A i \in 1..Len(value) : value[i] \in Range(DIGITS) \cup {ARABIC_INDIC_THREE}

C13_RepeatedEncodeDistinct ==
    last.op = "encode_again" => last.result.value /= last.first

\* the characters of text at the 1-based positions lo..hi all lie in alphabet
RefAllIn(text, lo, hi, alphabet) == \A i \in lo..hi : text[i] \in Range(alphabet)

\* C14: a token of encode_membership(..., prefix_len, mac_len) is prefix_len
\* base64url characters, then one or more base62 characters, then exactly
\* mac_len base64url characters, so that its length is prefix_len + number of
\* base62 digits + mac_len, for every non-negative prefix_len and mac_len; and
\* decode_membership with the same two lengths splits it into the same core
\* and tag.
C14_WireFormat ==
    /\ (last.op = "encode" /\ origin.kind = "encoded") =>
          /\ Len(last.result.mac) = last.mac_len
          /\ Len(last.result.core) > last.prefix_len
          /\ Len(token) = Len(last.result.core) + last.mac_len
          /\ RefAllIn(token, 1, last.prefix_len, BASE64URL_CHARS)
          /\ RefAllIn(token, last.prefix_len + 1, Len(token) - last.mac_len, BASE62_CHARS)
          /\ RefAllIn(token, Len(token) - last.mac_len + 1, Len(token), BASE64URL_CHARS)
    /\ (last.op = "decode" /\ origin.kind = "encoded") =>
          /\ last.core = origin.core
          /\ last.mac = origin.mac

\* hour a is before hour b, both ten digits, compared as numbers
RefHourBefore(a, b) ==
    \/ RefNum(a, 1, 5) < RefNum(b, 1, 5)
    \/ RefNum(a, 1, 5) = RefNum(b, 1, 5) /\ RefNum(a, 6, 10) < RefNum(b, 6, 10)

\* C15: isExpired is true iff the decoded expiry hour is strictly before the
\* UTC hour of the decode (not in the expiry hour itself); decoding the same
\* token in another hour returns the same four fields, with isExpired
\* recomputed, and a token expired at the earlier hour is expired at the later.
C15_ExpiredIffPastExpiry ==
    /\ (last.op \in {"decode", "decode_again"} /\ last.result.ok) =>
          (last.result.value.isExpired
              <=> RefHourBefore(last.result.value.expireDateTime, last.now))
    /\ last.op = "decode_again" =>
          /\ last.result.ok
          /\ last.result.value.Flag0 = last.earlier.Flag0
          /\ last.result.value.Flag1 = last.earlier.Flag1
          /\ last.result.value.rechargeDateTime = last.earlier.rechargeDateTime
          /\ last.result.value.expireDateTime = last.earlier.expireDateTime
          /\ (RefHourBefore(last.earlier_now, last.now) /\ last.earlier.isExpired)
                => last.result.value.isExpired

\* decoded in its expiry hour the token is not expired, decoded later it is
C15_Witness ==
    /\ last.op = "decode_again"
    /\ last.earlier.expireDateTime = last.earlier_now
    /\ ~last.earlier.isExpired
    /\ RefHourBefore(last.earlier_now, last.now)
    /\ last.result.ok
    /\ last.result.value.isExpired

(***************************************************************************)
(* Properties of the order update                                          *)
(***************************************************************************)
\* the order metadata is a mapping with a true value under one of the keys
RefHasOneOf(order, keys) ==
    /\ order.user_info.t = "dict"
    /\ \E i \in 1..Len(keys) :
          keys[i] \in DOMAIN order.user_info.v /\ PyTruthy(order.user_info.v[keys[i]])

\* the update was asked for an order without a user id or without a
\* credential, in an environment without one of the secrets, or for an order
\* from which the extraction returns no recipe
RefLacksPrerequisite ==
    \/ ~RefHasOneOf(last.order, USER_ID_KEYS)
    \/ ~RefHasOneOf(last.order, ID_TOKEN_KEYS)
    \/ ~Truthy(last.environ.AUTHING_OFFSET_SECRET)
    \/ ~Truthy(last.environ.AUTHING_HMAC_SECRET)
    \/ _extract_membership_recipe(last.order) = Ok(PyNone)

RefHeldTokenFails ==
    /\ last.op = "update_membership_for_order"
    /\ ~RefLacksPrerequisite
    /\ _extract_membership_recipe(last.order).ok
    /\ RefHasOneOf(last.order, PREFERRED_USERNAME_KEYS)
    /\ ~DecodeExisting(_read_first(last.order.user_info, PREFERRED_USERNAME_KEYS),
                       last.environ, last.now_hour).ok

\* the same order without a token
RefWithoutToken(order) ==
    [order EXCEPT !.user_info =
        PyDict([key \in DOMAIN order.user_info.v \ Range(PREFERRED_USERNAME_KEYS)
                   |-> order.user_info.v[key]])]

\* C17: when the token the order carries fails to decode (too short, tag
\* mismatch, invalid segment, corrupt fields, no str), the update goes on with
\* no current expiry, and ends exactly as for the same order without a token.
C17_DecodeFailureFallsBack ==
    RefHeldTokenFails =>
        /\ last.result.current_expire = None
        /\ last.result.reached
              \in {"compute_new_expiry", "_add_days_from", "encode_membership", "return"}
        /\ last.result = update_membership_for_order(RefWithoutToken(last.order),
                                                     last.environ, last.now_hour,
                                                     last.prefix, last.reply)

\* a token with a changed character, a recipe the member's true expiry would
\* refuse: the update reaches the call
C17_Witness ==
    /\ RefHeldTokenFails
    /\ last.order.user_info = Holding(PyStr(HeldTampered))
    /\ last.order.description = PyJsonStr(JSON_SET_2024)
    /\ last.result.reached = "return"
    /\ Len(last.result.calls) = 1
    /\ Len(last.result.posted) = 1

\* the recipe of the order, its new expiry from the current expiry the update
\* used, and that expiry with the recharge days added
RefRecipe == _extract_membership_recipe(last.order).value
RefComputed == compute_new_expiry(RefRecipe, last.result.current_expire, last.now_hour)
RefExtended ==
    IF ExtraDays(last.order) /= 0
    THEN _add_days_from(RefComputed.value, ExtraDays(last.order))
    ELSE RefComputed

\* compute_new_expiry raises, adding the recharge days raises, or the new
\* expiry is nothing encode_membership accepts
RefHardFailure ==
    \/ ~RefComputed.ok
    \/ ~RefExtended.ok
    \/ ~RefDecimalField(RefExtended.value, 10)

\* C18: when compute_new_expiry raises, adding the extra days raises or
\* encode_membership raises, update_membership_for_order returns None and
\* update_preferred_username is never called; the call is made at most once
\* and only with a token encode_membership returned.
C18_HardAbortsBeforeCall ==
    last.op = "update_membership_for_order" =>
        /\ Len(last.result.calls) <= 1
        /\ Len(last.result.posted) <= Len(last.result.calls)
        /\ last.result.calls /= <<>> =>
              /\ last.result.new_token /= None
              /\ Len(last.result.new_token) > PREFIX_LEN + MAC_LEN
              /\ last.result.calls[1].preferred_username = PyStr(last.result.new_token)
              /\ ~RefHardFailure
        /\ (~RefLacksPrerequisite /\ _extract_membership_recipe(last.order).ok
               /\ RefHardFailure) =>
              /\ ~last.result.raised
              /\ last.result.value = PyNone
              /\ last.result.calls = <<>>
              /\ last.result.posted = <<>>

\* the new expiry is no ten decimal digits: encode_membership raises, no call
C18_Witness ==
    /\ last.op = "update_membership_for_order"
    /\ ~RefLacksPrerequisite
    /\ _extract_membership_recipe(last.order).ok
    /\ RefComputed.ok
    /\ RefExtended.ok
    /\ ~RefDecimalField(RefExtended.value, 10)
    /\ last.result.value = PyNone
    /\ last.result.calls = <<>>

\* C19: once the identity API has been called and has answered, the caller of
\* update_membership_for_order observes success iff the answer was HTTP 201.
C19_OutcomeIsAcknowledgment ==
    ( /\ last.op = "main"
      /\ Len(last.call.result.posted) = 1
      /\ last.call.reply.kind = "response" ) =>
        (last.outcome = "succeeded" <=> last.call.reply.status_code = 201)

\* the payload is one from_payload is to refuse: no mapping; a type that is
\* missing, no str, or neither STACK nor SET_EXPIRY; a STACK whose
\* durationDays is missing, no integer, or negative; a SET_EXPIRY whose
\* targetExpiryUtc is no str of ten digits
RefTypeOf(payload) == Upper(Strip(payload.v.type.v))
RefRefused(payload) ==
    \/ payload.t /= "dict"
    \/ "type" \notin DOMAIN payload.v
    \/ payload.v.type.t /= "str"
    \/ /\ RefTypeOf(payload) /= <<"S", "T", "A", "C", "K">>
       /\ RefTypeOf(payload) /= <<"S", "E", "T", "_", "E", "X", "P", "I", "R", "Y">>
    \/ /\ RefTypeOf(payload) = <<"S", "T", "A", "C", "K">>
       /\ \/ "durationDays" \notin DOMAIN payload.v
          \/ payload.v.durationDays.t /= "int"
          \/ payload.v.durationDays.v < 0
    \/ /\ RefTypeOf(payload) = <<"S", "E", "T", "_", "E", "X", "P", "I", "R", "Y">>
       /\ \/ "targetExpiryUtc" \notin DOMAIN payload.v
          \/ payload.v.targetExpiryUtc.t /= "str"
          \/ Len(payload.v.targetExpiryUtc.v) /= 10
          \/ \E i \in 1..10 : payload.v.targetExpiryUtc.v[i] \notin Range(DIGITS)

\* C20: from_payload returns no recipe, and does not raise, for every payload
\* of these kinds; _extract_membership_recipe returns no recipe when no
\* candidate of the order yields one, and never a recipe of its own making.
C20_ExtractionFailsClosed ==
    /\ (last.op = "from_payload" /\ RefRefused(last.payload)) =>
          last.result = Ok(PyNone)
    /\ last.op = "_extract_membership_recipe" =>
          /\ last.result.ok
          /\ last.result /= Ok(PyNone) =>
                \E i \in 1..Len(last.candidates) :
                    \/ from_payload(last.candidates[i]) = last.result
                    \/ /\ last.candidates[i].t = "str"
                       /\ json_loads(last.candidates[i]).ok
                       /\ from_payload(json_loads(last.candidates[i]).value) = last.result

\* the recharge days of the order counted as the claim counts them: none when
\* the field is missing, zero or negative
RefBonusDays ==
    IF last.order.recharge_days = NoInt THEN 0
    ELSE LET d == CHOOSE n \in last.order.recharge_days : TRUE
         IN  IF d > 0 THEN d ELSE 0

\* C21: the expiry update_membership_for_order encodes is the result of
\* compute_new_expiry(recipe, current_expire, now) with max(recharge_days, 0)
\* days added by _add_days_from; missing, zero or negative recharge days leave
\* the recipe result as it is, and a recipe computation that raises (the
\* monotonic rule of SET_EXPIRY included) is not rescued by the extra days.
C21_ExtraDaysAfterRecipe ==
    last.op = "update_membership_for_order" =>
        /\ last.result.new_expire /= None =>
              /\ RefComputed.ok
              /\ RefBonusDays = 0 => last.result.new_expire = RefComputed.value
              /\ RefBonusDays /= 0 =>
                    /\ _add_days_from(RefComputed.value, RefBonusDays).ok
                    /\ last.result.new_expire =
                          _add_days_from(RefComputed.value, RefBonusDays).value
        /\ last.result.calls /= <<>> => last.result.new_expire /= None
        /\ (~RefLacksPrerequisite /\ _extract_membership_recipe(last.order).ok
               /\ ~RefComputed.ok) =>
              /\ last.result.new_expire = None
              /\ last.result.calls = <<>>

\* a three-day STACK order with thirty recharge days, no token held
C21_Witness ==
    /\ last.op = "update_membership_for_order"
    /\ last.order = Order(PyDict(User), Stack3, SomeInt(30))
    /\ last.now_hour = Hour(2025, 6, 1, 12)
    /\ last.result.reached = "return"
    /\ RefComputed.value = Hour(2025, 6, 4, 12)
    /\ last.result.new_expire = Hour(2025, 7, 4, 12)
    /\ Len(last.result.posted) = 1

\* the token of the call decoded with the secrets and at the hour of the update
RefPushedDecoded ==
    decode_membership(last.result.new_token, last.environ.AUTHING_OFFSET_SECRET,
                      last.environ.AUTHING_HMAC_SECRET, PREFIX_LEN, MAC_LEN, last.now_hour)

\* C22: every token update_membership_for_order hands to
\* update_preferred_username decodes, with the same secrets in the same hour,
\* to flags 0/0, rechargeDateTime = the hour of the update and expireDateTime
\* = the new expiry it computed, which is not before the hour of the update.
C22_PushedTokenValid ==
    (last.op = "update_membership_for_order" /\ last.result.calls /= <<>>) =>
        /\ RefPushedDecoded.ok
        /\ RefPushedDecoded.value.Flag0 = <<"0">>
        /\ RefPushedDecoded.value.Flag1 = <<"0">>
        /\ RefPushedDecoded.value.rechargeDateTime = last.now_hour
        /\ RefPushedDecoded.value.expireDateTime = last.result.new_expire
        /\ ~RefHourBefore(RefPushedDecoded.value.expireDateTime, last.now_hour)

(***************************************************************************)
(* Properties of one member across orders                                  *)
(***************************************************************************)
\* the token an order carries (PyNone when it carries none)
RefCarried(order) == Get(order.user_info, "preferred_username")

\* C23: when an order carrying the token the provider stores is processed,
\* that token decodes and the provider acknowledges the update, the expiry
\* written in the new token is not before the expiry of the token it replaces.
C23_NeverShortens ==
    (/\ last.op = "update_membership_for_order"
     /\ last.replaced /= None
     /\ RefCarried(last.order) = PyStr(last.replaced)
     /\ last.result.current_expire = last.replacedExpire
     /\ Acknowledged(last.result)) =>
        ~RefHourBefore(memberExpire, last.replacedExpire)

\* the days of the STACK recipe of a processed order
RefStackDays(done) == OrZero(_extract_membership_recipe(done.order).value.duration_days)
RefIsStack(done) == _extract_membership_recipe(done.order).value.type = "STACK"

\* the later of two hours
RefLaterHour(a, b) == IF StrLt(a, b) THEN b ELSE a

\* C24: when two STACK orders of d1 and d2 days that carry the same token T
\* have both been processed and acknowledged, the expiry the provider stores
\* is at least max(expiry(T), now) + d1 + d2 days.
C24_NoPurchaseLost ==
    (/\ Len(origin.processed) = 2
     /\ origin.processed[1].acknowledged /\ origin.processed[2].acknowledged
     /\ RefCarried(origin.processed[1].order) /= PyNone
     /\ RefCarried(origin.processed[1].order) = RefCarried(origin.processed[2].order)
     /\ RefIsStack(origin.processed[1]) /\ RefIsStack(origin.processed[2])) =>
        ~RefHourBefore(memberExpire,
                       _add_days_from(RefLaterHour(origin.processed[1].replacedExpire,
                                                   origin.processed[1].now_hour),
                                      RefStackDays(origin.processed[1])
                                        + RefStackDays(origin.processed[2])).value)

(***************************************************************************)
(* Properties of the payment notifications                                 *)
(***************************************************************************)
\* the notification carries Alipay's signature over its own fields and the
\* service holds Alipay's public key
RefVerified ==
    /\ last.sign \in {"alipay", "alipay-urlsafe"}
    /\ last.settings.configured
    /\ last.settings.alipay_public_key = ALIPAY_PUBLIC_KEY

\* the order the notification names, before the call
RefKnown == last.payload.out_trade_no \in DOMAIN last.before

\* C25: handle_async_notification changes an order only when the signature
\* of the notification verifies (a signature that does not verify raises 400
\* and leaves every order as it was); a verified notification with
\* TRADE_SUCCESS or TRADE_FINISHED leaves the order succeeded; an order that
\* is succeeded is not moved to failed by a later verified notification.
C25_NotificationsKeepOrderStatus ==
    last.op = "handle_async_notification" =>
        /\ ~RefVerified => payment_orders = last.before
        /\ (~RefVerified /\ last.settings.configured) =>
              /\ last.result.raised
              /\ last.result.exception.type = "HTTPException"
              /\ last.result.exception.status_code = HTTP_400_BAD_REQUEST
        /\ (RefVerified /\ RefKnown
               /\ last.payload.trade_status \in {"TRADE_SUCCESS", "TRADE_FINISHED"}) =>
              /\ ~last.result.raised
              /\ payment_orders[last.payload.out_trade_no].status = "succeeded"
        /\ (RefKnown /\ last.before[last.payload.out_trade_no].status = "succeeded") =>
              payment_orders[last.payload.out_trade_no].status /= "failed"

(***************************************************************************)
(* Properties of the version cache                                         *)
(***************************************************************************)
\* the second of the day a lastUpdate text names
RefSecondOf(text) == RefNum(text, 12, 13) * 3600 + RefNum(text, 15, 16) * 60 + RefNum(text, 18, 19)

\* the record in the file before the request is younger than the maximum age
RefFresh ==
    /\ last.before.kind = "record"
    /\ last.now_ms - RefSecondOf(last.before.lastUpdate) * 1000 < _max_age_ms

\* the answer is a response with status 200 whose body is a JSON object with
\* a version and a non-empty list of download links
RefValidAnswer(answer) ==
    /\ answer.kind = "response"
    /\ answer.status = 200
    /\ answer.body.kind = "json"
    /\ answer.body.value.t = "dict"
    /\ {"version", "downloadurl"} \subseteq DOMAIN answer.body.value.v
    /\ answer.body.value.v.downloadurl.t = "list"
    /\ answer.body.value.v.downloadurl.v /= <<>>
RefValidSources == {i \in 1..Len(last.answers) : RefValidAnswer(last.answers[i])}
RefFirstValid == CHOOSE i \in RefValidSources : \A j \in RefValidSources : i <= j
RefFirstPayload == last.answers[RefFirstValid].body.value

\* a fresh record: its data is returned, no source is contacted
RefServedFromCache ==
    RefFresh =>
        /\ last.result.response.status_code = 200
        /\ last.result.response.content = last.before.data
        /\ last.result.contacted = 0
        /\ cache_file = last.before

\* a source answered with a valid payload: the first such payload is returned
\* (with the url taken from its first link), the sources after it are not asked
RefServedFromSource ==
    (~RefFresh /\ RefValidSources /= {}) =>
        /\ last.result.response.status_code = 200
        /\ \A k \in DOMAIN RefFirstPayload.v :
              last.result.response.content.v[k] = RefFirstPayload.v[k]
        /\ last.result.response.content.v.url = RefFirstPayload.v.downloadurl.v[1]
        /\ last.result.contacted = RefFirstValid

\* the file holds the returned payload under the time of the request
RefWritten ==
    /\ cache_file.kind = "record"
    /\ cache_file.data = last.result.response.content
    /\ RefSecondOf(cache_file.lastUpdate) = last.now_ms \div 1000

\* no source answered with a valid payload and there is a record: its data is
\* returned with stale = true and the file stays as it was
RefServedStale ==
    (~RefFresh /\ RefValidSources = {} /\ last.before.kind = "record") =>
        /\ last.result.response.status_code = 200
        /\ DOMAIN last.result.response.content.v = DOMAIN last.before.data.v \cup {"stale"}
        /\ last.result.response.content.v.stale = PyBool(TRUE)
        /\ \A k \in DOMAIN last.before.data.v \ {"stale"} :
              last.result.response.content.v[k] = last.before.data.v[k]
        /\ last.result.contacted = Len(last.answers)
        /\ cache_file = last.before

\* 503 exactly when no source answered with a valid payload and no record is cached
RefServedNothing ==
    /\ (~RefFresh /\ RefValidSources = {} /\ last.before.kind /= "record") =>
          /\ last.result.response.status_code = 503
          /\ last.result.response.content = PyDict([error |-> PyStr(<<"No version data">>)])
          /\ cache_file = last.before
    /\ last.result.response.status_code = 503 =>
          /\ ~RefFresh
          /\ RefValidSources = {}
          /\ last.before.kind /= "record"

\* C26 as claimed: a fresh record is served without contacting a source;
\* otherwise the first valid payload of the sources, in their order, is
\* returned and written to the cache with a new lastUpdate; otherwise the
\* cached data is returned with stale = true and the file unchanged;
\* otherwise 503; no request raises.
C26_FallbackLadder ==
    last.op = "get_latest_windows_version" =>
        /\ ~last.result.raised
        /\ RefServedFromCache
        /\ RefServedFromSource
        /\ (~RefFresh /\ RefValidSources /= {}) => RefWritten
        /\ RefServedStale
        /\ RefServedNothing

\* C26, amended: as above, but the payload a source returned is written to
\* the cache when the cache file can be written; when it cannot, the payload
\* is returned all the same and the file is as it was or no longer readable.
C26_FallbackLadderWhenWritable ==
    last.op = "get_latest_windows_version" =>
        /\ ~last.result.raised
        /\ RefServedFromCache
        /\ RefServedFromSource
        /\ (~RefFresh /\ RefValidSources /= {}) =>
              /\ last.save = "written" => RefWritten
              /\ last.save = "refused" => cache_file = last.before
              /\ last.save = "truncated" => cache_file.kind = "corrupt"
        /\ RefServedStale
        /\ RefServedNothing

\* an old record is replaced by the payload of the second source after the
\* first one answered 500
C26_Witness ==
    /\ last.op = "get_latest_windows_version"
    /\ last.before.kind = "record"
    /\ ~RefFresh
    /\ last.answers = <<Answer(500, NoJsonBody), Answer(200, JsonBody(PayloadTwoLinks))>>
    /\ last.save = "written"
    /\ last.result.contacted = 2
    /\ last.result.response.content.v.backupUrls = PyList(<<Link("2")>>)
    /\ cache_file.kind = "record"
    /\ cache_file.data = last.result.response.content
    /\ cache_file /= last.before

====
